---------------------------- MODULE Spec2Model ----------------------------
(***************************************************************************)
(* A model of pymumble_py3: the per-user inbound sound queue               *)
(* (soundqueue.py), the command rendezvous (commands.py, messages.py),     *)
(* the varint codec (tools.py), and the channel / user / blob shadows      *)
(* (channels.py, users.py, blobs.py).                                      *)
(*                                                                         *)
(* Conventions.                                                            *)
(*  - Python's None is the integer None (-1) where the other values are    *)
(*    naturals, and the empty sequence <<>> where the other values are     *)
(*    records (an Optional[x] is then <<>> or <<x>>).                      *)
(*  - A deque is a sequence whose element 1 is the deque's index 0 (the    *)
(*    side of appendleft) and whose last element is index -1 (the side of  *)
(*    pop).                                                                *)
(*  - Times and durations are exact, counted in ticks: one byte of s16le   *)
(*    mono PCM at PYMUMBLE_SAMPLERATE lasts TicksPerByte ticks.  Python's  *)
(*    float rounding is not modelled.                                      *)
(***************************************************************************)
EXTENDS Integers, Sequences, FiniteSets, TLC

VARIABLES
    \* ---- soundqueue.py: one SoundQueue and the wall clock
    queue,            \* SoundQueue.queue, a deque of SoundChunk records
    start_sequence,   \* SoundQueue.start_sequence (None or a sequence number)
    start_time,       \* SoundQueue.start_time (None or a clock value)
    receive_sound,    \* SoundQueue.receive_sound
    sq_lock,          \* SoundQueue.lock is held
    clock,            \* time.time(), in ticks
    sq_ret,           \* what the last add / get_sound returned: <<>> or <<chunk>>
    arrived,          \* history: the sequence numbers of the frames add queued
    got               \* history: every get_sound call: its argument, what it
                      \* returned, and how many frames had been queued before

VARIABLES
    \* ---- commands.py, messages.py: one Commands object, the host threads
    \* that call new_cmd and the runtime thread that calls pop_cmd and answer
    cmds_id,          \* Commands.id
    cmd_queue,        \* Commands.queue, a deque of Cmd objects (their numbers)
    cmds_lock,        \* Commands.lock is held
    cmd,              \* the Cmd objects constructed so far: a sequence of
                      \* records [kind, cmd_id, lock, response]
    pc,               \* pc[h]: where host thread h stands
    cur,              \* cur[h]: the Cmd object host thread h is enqueuing
    rt_pc,            \* where the runtime thread stands
    rt_cmd,           \* what the runtime's last pop_cmd returned (None or a Cmd)
    enq,              \* history: the Cmd objects in the order of appendleft
    popped,           \* history: the Cmd objects pop_cmd returned, in order
    answered,         \* history: the Cmd objects answer was called for
    proceeded         \* history: the Cmd objects whose host passed its wait

VARIABLES
    \* ---- tools.py: one VarInt being encoded and decoded again
    vi_value,         \* the integer n of VarInt(n)
    vi_bytes,         \* VarInt(n).encode()
    vi_self,          \* self.value of the VarInt object that decodes
    vi_ret,           \* what decode returned or raised
    vi_pc             \* "new", "encoded" or "decoded"

VARIABLES
    \* ---- users.py, channels.py, blobs.py: the shadows of the server's state
    users,            \* Users: the dict from session to User dict
    users_lock,       \* Users.lock is held
    myself,           \* Users.myself: None or a User object
    myself_session,   \* Users.myself_session
    channels,         \* Channels: the dict from channel_id to Channel dict
    chan_lock,        \* Channels.lock is held
    blobs,            \* Blobs: the dict from hash to bytes
    sent,             \* history: the messages given to Mumble.send_message
    fetches,          \* history: every call of a Blobs.get_* method: its hash
                      \* and whether it sent a request
    cb_log,           \* history: the callbacks invoked, with their arguments
    nmsg,             \* how many messages and calls the shadows have seen
    gt_pc,            \* get_tree: "idle", "loop", "done" or "raised"
    gt_channel,       \* get_tree: its argument
    gt_current,       \* get_tree: current
    gt_tree           \* get_tree: tree

VARIABLES
    \* ---- the host's calls that only read the shadows
    call              \* history: the last such call, its arguments and outcome

VARIABLES
    \* ---- soundqueue.py: a thread inside add and a thread inside get_sound
    add_pc,           \* where the thread that calls add stands
    add_arg,          \* add: its arguments
    add_new,          \* add: newsound, <<>> or <<chunk>>
    add_tmp,          \* add: tmp of the swap, <<>> or <<chunk>>
    get_pc,           \* where the thread that calls get_sound stands
    get_dur,          \* get_sound: duration
    get_snd,          \* get_sound: sound (None or the key of the object)
    get_res,          \* get_sound: result, <<>> or <<chunk>>
    get_size          \* extract_sound: size

sqVars == <<queue, start_sequence, start_time, receive_sound, sq_lock, clock,
            sq_ret, arrived, got>>

cmdVars == <<cmds_id, cmd_queue, cmds_lock, cmd, pc, cur, rt_pc, rt_cmd, enq,
             popped, answered, proceeded>>

viVars == <<vi_value, vi_bytes, vi_self, vi_ret, vi_pc>>

shVars == <<users, users_lock, myself, myself_session, channels, chan_lock,
            blobs, sent, fetches, cb_log, nmsg, gt_pc, gt_channel, gt_current,
            gt_tree>>

callVars == <<call>>

addVars == <<add_pc, add_arg, add_new, add_tmp>>

getVars == <<get_pc, get_dur, get_snd, get_res, get_size>>

thVars == <<addVars, getVars>>

vars == <<sqVars, cmdVars, viVars, shVars, callVars, thVars>>

\* everything but the variables of one component
NotSq == <<cmdVars, viVars, shVars, callVars, thVars>>

NotCmd == <<sqVars, viVars, shVars, callVars, thVars>>

NotVi == <<sqVars, cmdVars, shVars, callVars, thVars>>

NotSh == <<sqVars, cmdVars, viVars, callVars, thVars>>

NotCall == <<sqVars, cmdVars, viVars, shVars, thVars>>

\* everything but the sound queue and the threads inside it
NotSound == <<cmdVars, viVars, shVars, callVars>>

----------------------------------------------------------------------------
(* Generic helpers *)

None == -1

Last(s) == s[Len(s)]

Front(s) == SubSeq(s, 1, Len(s) - 1)

Min(a, b) == IF a < b THEN a ELSE b

----------------------------------------------------------------------------
(* Bounds of the model *)

\* ticks per byte of PCM: the resolution of the modelled clock
TicksPerByte == 2

\* how many frames add may queue in one behaviour
MaxAdds == 4

\* the largest sequence number the sender uses
MaxSeq == 4

\* how many times the clock advances
MaxTicks == 2

\* the largest decoded frame, in samples
MaxSamples == 2

----------------------------------------------------------------------------
(* constants.py (not among the sources; values as the specification gives  *)
(* them: 48 kHz, 10 ms per sequence number, Opus = 4)                      *)

PYMUMBLE_SAMPLERATE == 48000

PYMUMBLE_AUDIO_TYPE_OPUS == 4

TicksPerSecond == 2 * PYMUMBLE_SAMPLERATE * TicksPerByte

\* 0.01 s
PYMUMBLE_SEQUENCE_DURATION == TicksPerSecond \div 100

----------------------------------------------------------------------------
(* soundqueue.py: SoundChunk *)

\* the default argument timestamp=time.time() is evaluated once, when the
\* module is imported: the clock's initial value
ImportTime == 0

\* SoundChunk.__init__
SoundChunk(pcm, sequence, size, calculated_time, type, target, timestamp) ==
    [ timestamp |-> timestamp,
      time      |-> calculated_time,
      pcm       |-> pcm,
      sequence  |-> sequence,
      size      |-> size,
      duration  |-> size * TicksPerByte,   \* float(size) / 2 / SAMPLERATE
      type      |-> type,
      target    |-> target ]

\* pcm[:n] and pcm[n:] of Python, for n >= 0
Take(pcm, n) == SubSeq(pcm, 1, Min(n, Len(pcm)))

Drop(pcm, n) == SubSeq(pcm, Min(n, Len(pcm)) + 1, Len(pcm))

\* int(duration * 2 * PYMUMBLE_SAMPLERATE): the bytes that fit into duration
ExtractSize(duration) == duration \div TicksPerByte

\* SoundChunk.extract_sound: the chunk returned and the chunk left
ExtractSound(c, duration) ==
    LET size == ExtractSize(duration)
    IN  [ result |-> SoundChunk(Take(c.pcm, size), c.sequence, size, c.time,
                                c.type, c.target, c.timestamp),
          rest   |-> [c EXCEPT !.pcm      = Drop(c.pcm, size),
                               !.duration = @ - duration,
                               !.time     = @ + duration,
                               !.size     = @ - size] ]

----------------------------------------------------------------------------
(* soundqueue.py: SoundQueue *)

\* the decoders installed by SoundQueue.__init__
Decoders == {PYMUMBLE_AUDIO_TYPE_OPUS}

Swap(q, i, j) == [q EXCEPT ![i] = q[j], ![j] = q[i]]

\* the while loop of add (cpt is a deque index, from 0)
RECURSIVE SortLoop(_, _)
SortLoop(q, cpt) ==
    IF cpt < Len(q) - 1 /\ q[cpt + 1].time < q[cpt + 2].time
    THEN SortLoop(Swap(q, cpt + 1, cpt + 2), cpt)
    ELSE q

\* the reordering of add after appendleft
SortNew(q) ==
    IF Len(q) > 1 /\ q[1].time < q[2].time THEN SortLoop(q, 0) ELSE q

\* "not self.start_sequence or sequence <= self.start_sequence"
NewSequenceStarted(sequence) ==
    \/ start_sequence = None
    \/ start_sequence = 0
    \/ sequence <= start_sequence

\* SoundQueue.add(audio, sequence, type, target); pcm is what the decoder
\* makes of audio, decodes says whether the decoder accepts it
Add(pcm, decodes, sequence, type, target) ==
    /\ ~sq_lock
    /\ Len(arrived) < MaxAdds
    /\ IF ~receive_sound
       THEN /\ sq_ret' = <<>>
            /\ UNCHANGED <<queue, start_sequence, start_time, arrived>>
       ELSE IF type \notin Decoders \/ ~decodes
       THEN \* KeyError, or the decoder's exception: logged, lock released
            /\ sq_ret' = <<>>
            /\ UNCHANGED <<queue, start_sequence, start_time, arrived>>
       ELSE LET restart == NewSequenceStarted(sequence)
                calculated_time ==
                    IF restart THEN clock
                    ELSE start_time
                         + (sequence - start_sequence) * PYMUMBLE_SEQUENCE_DURATION
                newsound == SoundChunk(pcm, sequence, Len(pcm), calculated_time,
                                       type, target, ImportTime)
            IN  /\ start_time' = IF restart THEN clock ELSE start_time
                /\ start_sequence' = IF restart THEN sequence ELSE start_sequence
                /\ queue' = SortNew(<<newsound>> \o queue)
                /\ sq_ret' = <<newsound>>
                /\ arrived' = Append(arrived, sequence)
    /\ got' = got
    /\ UNCHANGED <<receive_sound, sq_lock, clock>>

\* a first_sound that looks at the head of the deque, self.queue[0]
FirstSoundHead == IF Len(queue) > 0 THEN <<Head(queue)>> ELSE <<>>

\* SoundQueue.first_sound
FirstSound == IF Len(queue) > 0 THEN <<Last(queue)>> ELSE <<>>

\* SoundQueue.get_sound(duration); duration = None when omitted
GetSound(duration) ==
    /\ ~sq_lock
    /\ LET sound == FirstSound
       IN  IF sound = <<>>
           THEN /\ sq_ret' = <<>>
                /\ queue' = queue
           ELSE IF duration = None \/ sound[1].duration <= duration
           THEN /\ sq_ret' = <<Last(queue)>>
                /\ queue' = Front(queue)
           ELSE LET e == ExtractSound(sound[1], duration)
                IN  /\ sq_ret' = <<e.result>>
                    /\ queue' = [queue EXCEPT ![Len(queue)] = e.rest]
    /\ got' = Append(got, [duration |-> duration, ret |-> sq_ret',
                         after |-> Len(arrived)])
    /\ UNCHANGED <<start_sequence, start_time, receive_sound, sq_lock, clock,
                   arrived>>

\* the host calls first_sound()
FirstSoundCall ==
    /\ call' = [op |-> "first_sound", ret |-> FirstSound]
    /\ UNCHANGED NotCall

\* SoundQueue.set_receive_sound
SetReceiveSound(value) ==
    /\ receive_sound' = value
    /\ UNCHANGED <<queue, start_sequence, start_time, sq_lock, clock, sq_ret,
                   arrived, got>>

\* the wall clock advances, by half the duration of a sequence number
TickStep == PYMUMBLE_SEQUENCE_DURATION \div 2

Tick ==
    /\ clock < MaxTicks * TickStep
    /\ clock' = clock + TickStep
    /\ UNCHANGED <<queue, start_sequence, start_time, receive_sound, sq_lock,
                   sq_ret, arrived, got>>

\* SoundQueue.__init__
InitSoundQueue ==
    /\ queue = <<>>
    /\ start_sequence = None
    /\ start_time = None
    /\ receive_sound = TRUE
    /\ sq_lock = FALSE
    /\ clock = ImportTime
    /\ sq_ret = <<>>
    /\ arrived = <<>>
    /\ got = <<>>

\* the PCM the decoder returns for the k-th queued frame: n samples, each
\* byte told apart from every other frame's
Pcm(k, n) == [i \in 1..(2 * n) |-> 16 * k + i]

Seqs == 0..MaxSeq

----------------------------------------------------------------------------
(* soundqueue.py, statement by statement: one thread inside add and one    *)
(* inside get_sound.  A SoundChunk object is told from every other by the  *)
(* last byte of its pcm: every frame's bytes are its own, and              *)
(* extract_sound never takes the last byte away.                           *)

\* how many frames the add thread queues in one behaviour
MaxFrames == 3

\* how many times the other thread calls get_sound
MaxCalls == 2

\* the samples of every frame that the add thread brings
FrameSamples == 2

Key(c) == Last(c.pcm)

\* a SoundQueue.lock that excludes no one
SqLockIgnored == TRUE

\* self.lock.acquire() of add and get_sound can proceed
SqLockFree == ~sq_lock

\* add is called: "if not self.receive_sound: return None"
AddCall(pcm, decodes, sequence, type, target) ==
    /\ add_pc = "idle"
    /\ Len(arrived) < MaxFrames
    /\ IF ~receive_sound
       THEN sq_ret' = <<>> /\ UNCHANGED <<add_pc, add_arg>>
       ELSE /\ add_pc' = "acquire"
            /\ add_arg' = [pcm |-> pcm, decodes |-> decodes,
                           sequence |-> sequence, type |-> type,
                           target |-> target]
            /\ sq_ret' = sq_ret
    /\ UNCHANGED <<queue, start_sequence, start_time, receive_sound, sq_lock,
                   clock, arrived, got, add_new, add_tmp, getVars>>

\* add: self.lock.acquire()
AddAcquire ==
    /\ add_pc = "acquire"
    /\ SqLockFree
    /\ sq_lock' = TRUE
    /\ add_pc' = "decode"
    /\ UNCHANGED <<queue, start_sequence, start_time, receive_sound, clock,
                   sq_ret, arrived, got, add_arg, add_new, add_tmp, getVars>>

\* add: pcm = self.decoders[type].decode(...), which raises KeyError for a
\* type without decoder and the decoder's error for bad audio; then the
\* burst anchor and newsound = SoundChunk(...)
AddDecode ==
    /\ add_pc = "decode"
    /\ IF add_arg.type \notin Decoders \/ ~add_arg.decodes
       THEN /\ add_pc' = "except"
            /\ UNCHANGED <<start_sequence, start_time, add_new>>
       ELSE LET restart == NewSequenceStarted(add_arg.sequence)
                calculated_time ==
                    IF restart THEN clock
                    ELSE start_time + (add_arg.sequence - start_sequence)
                                          * PYMUMBLE_SEQUENCE_DURATION
            IN  /\ start_time' = IF restart THEN clock ELSE start_time
                /\ start_sequence' = IF restart THEN add_arg.sequence
                                     ELSE start_sequence
                /\ add_new' = <<SoundChunk(add_arg.pcm, add_arg.sequence,
                                           Len(add_arg.pcm), calculated_time,
                                           add_arg.type, add_arg.target,
                                           ImportTime)>>
                /\ add_pc' = "append"
    /\ UNCHANGED <<queue, receive_sound, sq_lock, clock, sq_ret, arrived, got,
                   add_arg, add_tmp, getVars>>

\* add: self.queue.appendleft(newsound)
AddAppend ==
    /\ add_pc = "append"
    /\ queue' = add_new \o queue
    /\ arrived' = Append(arrived, add_arg.sequence)
    /\ add_pc' = "sorttest"
    /\ UNCHANGED <<start_sequence, start_time, receive_sound, sq_lock, clock,
                   sq_ret, got, add_arg, add_new, add_tmp, getVars>>

\* add: "if len(self.queue) > 1 and self.queue[0].time < self.queue[1].time"
\* and, with cpt = 0, the test of the while loop, which is the same test
AddSortTest ==
    /\ add_pc \in {"sorttest", "while"}
    /\ add_pc' = IF Len(queue) > 1 /\ queue[1].time < queue[2].time
                 THEN (IF add_pc = "sorttest" THEN "while" ELSE "swap1")
                 ELSE "release"
    /\ UNCHANGED <<queue, start_sequence, start_time, receive_sound, sq_lock,
                   clock, sq_ret, arrived, got, add_arg, add_new, add_tmp,
                   getVars>>

\* add: tmp = self.queue[cpt + 1]
AddSwap1 ==
    /\ add_pc = "swap1"
    /\ IF Len(queue) >= 2
       THEN add_tmp' = <<queue[2]>> /\ add_pc' = "swap2"
       ELSE add_tmp' = add_tmp /\ add_pc' = "except"
    /\ UNCHANGED <<queue, start_sequence, start_time, receive_sound, sq_lock,
                   clock, sq_ret, arrived, got, add_arg, add_new, getVars>>

\* add: self.queue[cpt + 1] = self.queue[cpt]
AddSwap2 ==
    /\ add_pc = "swap2"
    /\ IF Len(queue) >= 2
       THEN queue' = [queue EXCEPT ![2] = queue[1]] /\ add_pc' = "swap3"
       ELSE queue' = queue /\ add_pc' = "except"
    /\ UNCHANGED <<start_sequence, start_time, receive_sound, sq_lock, clock,
                   sq_ret, arrived, got, add_arg, add_new, add_tmp, getVars>>

\* add: self.queue[cpt] = tmp, and back to the test of the while loop
AddSwap3 ==
    /\ add_pc = "swap3"
    /\ IF Len(queue) >= 1
       THEN queue' = [queue EXCEPT ![1] = add_tmp[1]] /\ add_pc' = "while"
       ELSE queue' = queue /\ add_pc' = "except"
    /\ add_tmp' = <<>>
    /\ UNCHANGED <<start_sequence, start_time, receive_sound, sq_lock, clock,
                   sq_ret, arrived, got, add_arg, add_new, getVars>>

\* add: self.lock.release(); return newsound
AddRelease ==
    /\ add_pc = "release"
    /\ sq_lock' = FALSE
    /\ sq_ret' = add_new
    /\ add_new' = <<>>
    /\ add_pc' = "idle"
    /\ UNCHANGED <<queue, start_sequence, start_time, receive_sound, clock,
                   arrived, got, add_arg, add_tmp, getVars>>

\* an except clause that logs and returns without releasing self.lock
AddExceptHoldsLock ==
    /\ add_pc = "except"
    /\ sq_lock' = sq_lock
    /\ sq_ret' = <<>>
    /\ add_new' = <<>>
    /\ add_pc' = "idle"
    /\ UNCHANGED <<queue, start_sequence, start_time, receive_sound, clock,
                   arrived, got, add_arg, add_tmp, getVars>>

\* add: the except clauses: self.lock.release(), the log, return None
AddExcept ==
    /\ add_pc = "except"
    /\ sq_lock' = FALSE
    /\ sq_ret' = <<>>
    /\ add_new' = <<>>
    /\ add_pc' = "idle"
    /\ UNCHANGED <<queue, start_sequence, start_time, receive_sound, clock,
                   arrived, got, add_arg, add_tmp, getVars>>

\* get_sound(duration) is called
GetCall(duration) ==
    /\ get_pc = "idle"
    /\ Len(got) < MaxCalls
    /\ get_pc' = "acquire"
    /\ get_dur' = duration
    /\ UNCHANGED <<sqVars, addVars, get_snd, get_res, get_size>>

\* get_sound: self.lock.acquire()
GetAcquire ==
    /\ get_pc = "acquire"
    /\ SqLockFree
    /\ sq_lock' = TRUE
    /\ get_pc' = "first"
    /\ UNCHANGED <<queue, start_sequence, start_time, receive_sound, clock,
                   sq_ret, arrived, got, addVars, get_dur, get_snd, get_res,
                   get_size>>

\* the object with key k, wherever a reference to it is kept
Object(k) ==
    IF \E i \in 1..Len(queue) : Key(queue[i]) = k
    THEN queue[CHOOSE i \in 1..Len(queue) : Key(queue[i]) = k]
    ELSE add_tmp[1]

\* get_sound: sound = self.first_sound(); result = None; and the tests
\* "sound is not None", "duration is None or sound.duration <= duration"
GetFirst ==
    /\ get_pc = "first"
    /\ get_snd' = IF Len(queue) > 0 THEN Key(Last(queue)) ELSE None
    /\ get_res' = <<>>
    /\ get_pc' = IF Len(queue) = 0 THEN "release"
                 ELSE IF get_dur = None \/ Last(queue).duration <= get_dur
                 THEN "pop"
                 ELSE "extract"
    /\ UNCHANGED <<sqVars, addVars, get_dur, get_size>>

\* get_sound: result = self.queue.pop(), which raises IndexError on an empty
\* deque
GetPop ==
    /\ get_pc = "pop"
    /\ IF Len(queue) > 0
       THEN /\ get_res' = <<Last(queue)>>
            /\ queue' = Front(queue)
            /\ get_pc' = "release"
       ELSE /\ get_pc' = "raised"
            /\ UNCHANGED <<get_res, queue>>
    /\ UNCHANGED <<start_sequence, start_time, receive_sound, sq_lock, clock,
                   sq_ret, arrived, got, addVars, get_dur, get_snd, get_size>>

\* extract_sound: size = int(...); result = SoundChunk(self.pcm[:size], ...)
GetExtractResult ==
    /\ get_pc = "extract"
    /\ get_size' = ExtractSize(get_dur)
    /\ LET c == Object(get_snd)
       IN  get_res' = <<SoundChunk(Take(c.pcm, get_size'), c.sequence,
                                   get_size', c.time, c.type, c.target,
                                   c.timestamp)>>
    /\ get_pc' = "pcm"
    /\ UNCHANGED <<sqVars, addVars, get_dur, get_snd>>

\* the object get_snd after one of the four assignments of extract_sound
Assigned(c, field) ==
    CASE field = "pcm"      -> [c EXCEPT !.pcm = Drop(c.pcm, get_size)]
      [] field = "duration" -> [c EXCEPT !.duration = @ - get_dur]
      [] field = "time"     -> [c EXCEPT !.time = @ + get_dur]
      [] field = "size"     -> [c EXCEPT !.size = @ - get_size]

\* extract_sound: self.pcm = self.pcm[size:]; self.duration -= duration;
\* self.time += duration; self.size -= size: one assignment, made on the
\* object wherever a reference to it is kept
GetExtractAssign ==
    /\ get_pc \in {"pcm", "duration", "time", "size"}
    /\ queue' = [i \in 1..Len(queue) |->
                    IF Key(queue[i]) = get_snd THEN Assigned(queue[i], get_pc)
                    ELSE queue[i]]
    /\ add_tmp' = IF add_tmp # <<>> /\ Key(add_tmp[1]) = get_snd
                  THEN <<Assigned(add_tmp[1], get_pc)>> ELSE add_tmp
    /\ get_pc' = CASE get_pc = "pcm" -> "duration"
                   [] get_pc = "duration" -> "time"
                   [] get_pc = "time" -> "size"
                   [] get_pc = "size" -> "release"
    /\ UNCHANGED <<start_sequence, start_time, receive_sound, sq_lock, clock,
                   sq_ret, arrived, got, add_pc, add_arg, add_new, get_dur,
                   get_snd, get_res, get_size>>

\* get_sound: self.lock.release(); return result
GetRelease ==
    /\ get_pc = "release"
    /\ sq_lock' = FALSE
    /\ sq_ret' = get_res
    /\ got' = Append(got, [duration |-> get_dur, ret |-> get_res,
                           after |-> Len(arrived)])
    /\ get_pc' = "idle"
    /\ UNCHANGED <<queue, start_sequence, start_time, receive_sound, clock,
                   arrived, addVars, get_dur, get_snd, get_res, get_size>>

\* no thread is inside add or get_sound
InitThreads ==
    /\ add_pc = "idle"
    /\ add_arg = <<>>
    /\ add_new = <<>>
    /\ add_tmp = <<>>
    /\ get_pc = "idle"
    /\ get_dur = None
    /\ get_snd = None
    /\ get_res = <<>>
    /\ get_size = 0

----------------------------------------------------------------------------
(* messages.py: the command objects *)

\* an attribute that was never set on an object
Absent == -2

\* the command classes of messages.py
CmdKinds == {"MoveCmd", "TextMessage", "TextPrivateMessage", "ModUserState",
             "CreateChannel", "RemoveChannel", "VoiceTarget"}

\* Cmd.__init__: the envelope of a command
CmdInit(kind, host) ==
    [kind |-> kind, host |-> host, cmd_id |-> None, lock |-> "free",
     response |-> None]

\* ModUserState.__init__ does not call Cmd.__init__: cmd_id, lock and
\* response are never set
ModUserStateInit(kind, host) ==
    [kind |-> kind, host |-> host, cmd_id |-> Absent, lock |-> "absent",
     response |-> Absent]

\* the constructor of each command class
Construct(kind, host) ==
    IF kind = "ModUserState" THEN ModUserStateInit(kind, host)
    ELSE CmdInit(kind, host)

----------------------------------------------------------------------------
(* commands.py: Commands *)

\* how many host threads enqueue commands
NHosts == 2

\* how many commands are constructed in one behaviour
MaxCmds == 3

Hosts == 1..NHosts

\* Commands.__init__, with every thread outside the class
InitCommands ==
    /\ cmds_id = 0
    /\ cmd_queue = <<>>
    /\ cmds_lock = FALSE
    /\ cmd = <<>>
    /\ pc = [h \in Hosts |-> "idle"]
    /\ cur = [h \in Hosts |-> None]
    /\ rt_pc = "idle"
    /\ rt_cmd = None
    /\ enq = <<>>
    /\ popped = <<>>
    /\ answered = {}
    /\ proceeded = {}

\* a Commands.lock that excludes no one
CmdsLockIgnored == TRUE

\* self.lock.acquire() of new_cmd and pop_cmd can proceed
CmdsLockFree == ~cmds_lock

\* a host thread constructs a command and calls new_cmd with it
HostConstruct(h, kind) ==
    /\ pc[h] \in {"idle", "raised"}
    /\ Len(cmd) < MaxCmds
    /\ cmd' = Append(cmd, Construct(kind, h))
    /\ cur' = [cur EXCEPT ![h] = Len(cmd) + 1]
    /\ pc' = [pc EXCEPT ![h] = "acquire"]
    /\ UNCHANGED <<cmds_id, cmd_queue, cmds_lock, rt_pc, rt_cmd, enq, popped,
                   answered, proceeded>>

\* new_cmd: self.lock.acquire()
NewCmdAcquire(h) ==
    /\ pc[h] = "acquire"
    /\ CmdsLockFree
    /\ cmds_lock' = TRUE
    /\ pc' = [pc EXCEPT ![h] = "inc"]
    /\ UNCHANGED <<cmds_id, cmd_queue, cmd, cur, rt_pc, rt_cmd, enq, popped,
                   answered, proceeded>>

\* new_cmd: self.id += 1
NewCmdInc(h) ==
    /\ pc[h] = "inc"
    /\ cmds_id' = cmds_id + 1
    /\ pc' = [pc EXCEPT ![h] = "setid"]
    /\ UNCHANGED <<cmd_queue, cmds_lock, cmd, cur, rt_pc, rt_cmd, enq, popped,
                   answered, proceeded>>

\* new_cmd: cmd.cmd_id = self.id
NewCmdSetId(h) ==
    /\ pc[h] = "setid"
    /\ cmd' = [cmd EXCEPT ![cur[h]].cmd_id = cmds_id]
    /\ pc' = [pc EXCEPT ![h] = "append"]
    /\ UNCHANGED <<cmds_id, cmd_queue, cmds_lock, cur, rt_pc, rt_cmd, enq,
                   popped, answered, proceeded>>

\* new_cmd: self.queue.appendleft(cmd)
NewCmdAppend(h) ==
    /\ pc[h] = "append"
    /\ cmd_queue' = <<cur[h]>> \o cmd_queue
    /\ enq' = Append(enq, cur[h])
    /\ pc' = [pc EXCEPT ![h] = "lockcmd"]
    /\ UNCHANGED <<cmds_id, cmds_lock, cmd, cur, rt_pc, rt_cmd, popped,
                   answered, proceeded>>

\* a new_cmd that forgets cmd.lock.acquire()
NewCmdLockCmdSkipped(h) ==
    /\ pc[h] = "lockcmd"
    /\ pc' = [pc EXCEPT ![h] = "release"]
    /\ UNCHANGED <<cmds_id, cmd_queue, cmds_lock, cmd, cur, rt_pc, rt_cmd, enq,
                   popped, answered, proceeded>>

\* new_cmd: cmd.lock.acquire().  A command without a lock attribute raises
\* AttributeError here, which leaves new_cmd with Commands.lock still held.
NewCmdLockCmd(h) ==
    /\ pc[h] = "lockcmd"
    /\ cmd[cur[h]].lock # "held"
    /\ IF cmd[cur[h]].lock = "absent"
       THEN /\ pc' = [pc EXCEPT ![h] = "raised"]
            /\ cmd' = cmd
       ELSE /\ pc' = [pc EXCEPT ![h] = "release"]
            /\ cmd' = [cmd EXCEPT ![cur[h]].lock = "held"]
    /\ UNCHANGED <<cmds_id, cmd_queue, cmds_lock, cur, rt_pc, rt_cmd, enq,
                   popped, answered, proceeded>>

\* new_cmd: self.lock.release(); return cmd.lock
NewCmdRelease(h) ==
    /\ pc[h] = "release"
    /\ cmds_lock' = FALSE
    /\ pc' = [pc EXCEPT ![h] = "returned"]
    /\ UNCHANGED <<cmds_id, cmd_queue, cmd, cur, rt_pc, rt_cmd, enq, popped,
                   answered, proceeded>>

\* the caller of new_cmd waits on the completion signal it got: it acquires
\* the lock, which blocks while the lock is held, and releases it again
HostWait(h) ==
    /\ pc[h] = "returned"
    /\ cmd[cur[h]].lock = "free"
    /\ proceeded' = proceeded \cup {cur[h]}
    /\ pc' = [pc EXCEPT ![h] = "idle"]
    /\ UNCHANGED <<cmds_id, cmd_queue, cmds_lock, cmd, cur, rt_pc, rt_cmd, enq,
                   popped, answered>>

\* the caller of new_cmd goes on without waiting
HostNoWait(h) ==
    /\ pc[h] = "returned"
    /\ pc' = [pc EXCEPT ![h] = "idle"]
    /\ UNCHANGED <<cmds_id, cmd_queue, cmds_lock, cmd, cur, rt_pc, rt_cmd, enq,
                   popped, answered, proceeded>>

\* pop_cmd: self.lock.acquire()
PopCmdAcquire ==
    /\ rt_pc = "idle"
    /\ CmdsLockFree
    /\ cmds_lock' = TRUE
    /\ rt_pc' = "pop"
    /\ UNCHANGED <<cmds_id, cmd_queue, cmd, pc, cur, rt_cmd, enq, popped,
                   answered, proceeded>>

\* a pop_cmd that takes from the side of appendleft
QueuePopLeft(q) == [question |-> Head(q), rest |-> Tail(q)]

\* self.queue.pop()
QueuePop(q) == [question |-> Last(q), rest |-> Front(q)]

\* pop_cmd: the test of the queue's length and the pop
PopCmdBody ==
    /\ rt_pc = "pop"
    /\ IF Len(cmd_queue) > 0
       THEN /\ rt_cmd' = QueuePop(cmd_queue).question
            /\ cmd_queue' = QueuePop(cmd_queue).rest
            /\ popped' = Append(popped, rt_cmd')
       ELSE /\ rt_cmd' = None
            /\ UNCHANGED <<cmd_queue, popped>>
    /\ rt_pc' = "pop_release"
    /\ UNCHANGED <<cmds_id, cmds_lock, cmd, pc, cur, enq, answered, proceeded>>

\* pop_cmd: self.lock.release() and the return; the runtime then dispatches
\* the command it got and answers it
PopCmdRelease ==
    /\ rt_pc = "pop_release"
    /\ cmds_lock' = FALSE
    /\ rt_pc' = IF rt_cmd = None THEN "idle" ELSE "answer"
    /\ UNCHANGED <<cmds_id, cmd_queue, cmd, pc, cur, rt_cmd, enq, popped,
                   answered, proceeded>>

\* Commands.answer(cmd): cmd.lock.release(), which raises on a lock that is
\* not held or not there
Answer ==
    /\ rt_pc = "answer"
    /\ IF cmd[rt_cmd].lock = "held"
       THEN /\ cmd' = [cmd EXCEPT ![rt_cmd].lock = "free"]
            /\ answered' = answered \cup {rt_cmd}
            /\ rt_pc' = "idle"
       ELSE /\ rt_pc' = "raised"
            /\ UNCHANGED <<cmd, answered>>
    /\ UNCHANGED <<cmds_id, cmd_queue, cmds_lock, pc, cur, rt_cmd, enq, popped,
                   proceeded>>

----------------------------------------------------------------------------
(* tools.py: VarInt.  A Python integer is a record [neg, mag]: its sign    *)
(* and its absolute value as 8 bytes, most significant first (struct's     *)
(* "!Q"); a byte string is a sequence of numbers in 0..255.                *)

RECURSIVE BitAnd(_, _)
BitAnd(a, b) ==
    IF a = 0 \/ b = 0 THEN 0
    ELSE (a % 2) * (b % 2) + 2 * BitAnd(a \div 2, b \div 2)

RECURSIVE BitOr(_, _)
BitOr(a, b) ==
    IF a = 0 THEN b
    ELSE IF b = 0 THEN a
    ELSE (IF a % 2 = 1 \/ b % 2 = 1 THEN 1 ELSE 0)
         + 2 * BitOr(a \div 2, b \div 2)

\* the 8 bytes of a number given by its last bytes
Mag(bytes) == [i \in 1..8 |-> IF i <= 8 - Len(bytes) THEN 0
                               ELSE bytes[i - (8 - Len(bytes))]]

\* a <= b on absolute values
LeqMag(a, b) ==
    \/ a = b
    \/ \E i \in 1..8 : a[i] < b[i] /\ \A j \in 1..(i - 1) : a[j] = b[j]

IsZero(v) == v.mag = Mag(<<>>)

\* -v
Negate(v) == IF IsZero(v) THEN v ELSE [v EXCEPT !.neg = ~v.neg]

\* an encode that also gives -4 the one-byte form
ShortNegativeUpTo4(v) == v.neg /\ LeqMag(v.mag, Mag(<<4>>))

\* encode: self.value < 0 and self.value >= -3
ShortNegative(v) == v.neg /\ LeqMag(v.mag, Mag(<<3>>))

\* an encode that gives every value the nine-byte form
EncodeAbsLong(value) == <<\b11110100>> \o value

\* encode: the forms of a value >= 0, by its size
EncodeAbs(value) ==
    IF LeqMag(value, Mag(<<\H7F>>))
    THEN <<value[8]>>
    ELSE IF LeqMag(value, Mag(<<\H3F, \HFF>>))
    THEN <<BitOr(\H80, value[7]), value[8]>>
    ELSE IF LeqMag(value, Mag(<<\H1F, \HFF, \HFF>>))
    THEN <<BitOr(\HC0, value[6]), value[7], value[8]>>
    ELSE IF LeqMag(value, Mag(<<\H0F, \HFF, \HFF, \HFF>>))
    THEN <<BitOr(\HE0, value[5]), value[6], value[7], value[8]>>
    ELSE IF LeqMag(value, Mag(<<\HFF, \HFF, \HFF, \HFF>>))
    THEN <<\b11110000, value[5], value[6], value[7], value[8]>>
    ELSE <<\b11110100>> \o value

\* VarInt.encode
Encode(v) ==
    LET value == v.mag
    IN  IF ShortNegative(v)
        THEN <<BitOr(\b11111100, value[8])>>
        ELSE (IF v.neg THEN <<\b11111000>> ELSE <<>>) \o EncodeAbs(value)

\* what decode returns or raises: err is "ok" (size returned, value stored),
\* "InvalidVarInt", or "TypeError" (-result with result still None)
Decoded(err, value, size) == [err |-> err, value |-> value, size |-> size]

\* VarInt.decode(value) on an object whose self.value is old
Decode(bytes, old) ==
    IF Len(bytes) <= 0 THEN Decoded("InvalidVarInt", old, None)
    ELSE
    LET prefixed == BitAnd(bytes[1], \b11111100) = \b11111000
    IN  IF prefixed /\ Len(bytes) < 2 THEN Decoded("InvalidVarInt", old, None)
        ELSE
        LET varint == IF prefixed THEN Tail(bytes) ELSE bytes
            size0  == IF prefixed THEN 1 ELSE 0
            first  == varint[1]
            n      == Len(varint)
            Done(result, negative, size) ==
                Decoded("ok",
                        IF negative THEN Negate([neg |-> FALSE, mag |-> result])
                        ELSE [neg |-> FALSE, mag |-> result],
                        size0 + size)
        IN  IF BitAnd(first, \b10000000) = \b00000000
            THEN Done(Mag(<<first>>), prefixed, 1)
            ELSE IF BitAnd(first, \b11111100) = \b11111100
            THEN Done(Mag(<<BitAnd(first, \b00000011)>>), TRUE, 1)
            ELSE IF BitAnd(first, \b11000000) = \b10000000
            THEN IF n < 2 THEN Decoded("InvalidVarInt", old, None)
                 ELSE Done(Mag(<<BitAnd(first, \H3F), varint[2]>>), prefixed, 2)
            ELSE IF BitAnd(first, \b11100000) = \b11000000
            THEN IF n < 3 THEN Decoded("InvalidVarInt", old, None)
                 ELSE Done(Mag(<<BitAnd(first, \b00011111), varint[2],
                                 varint[3]>>), prefixed, 3)
            ELSE IF BitAnd(first, \b11110000) = \b11100000
            THEN IF n < 4 THEN Decoded("InvalidVarInt", old, None)
                 ELSE Done(Mag(<<BitAnd(first, \H0F), varint[2], varint[3],
                                 varint[4]>>), prefixed, 4)
            ELSE IF BitAnd(first, \b11111100) = \b11110000
            THEN IF n < 5 THEN Decoded("InvalidVarInt", old, None)
                 ELSE Done(Mag(SubSeq(varint, 2, 5)), prefixed, 5)
            ELSE IF BitAnd(first, \b11111100) = \b11110100
            THEN IF n < 9 THEN Decoded("InvalidVarInt", old, None)
                 ELSE Done(Mag(SubSeq(varint, 2, 9)), prefixed, 9)
            ELSE \* no form matched: result is None, and -None raises
                 Decoded("TypeError", old, None)

\* 2^k and 2^k - 1 as absolute values, for k in 0..63 and 0..64
Pow2(k) == [i \in 1..8 |-> IF 8 - i = k \div 8 THEN 2 ^ (k % 8) ELSE 0]

Pow2m1(k) == [i \in 1..8 |-> IF 8 - i < k \div 8 THEN 255
                             ELSE IF 8 - i = k \div 8 THEN 2 ^ (k % 8) - 1
                             ELSE 0]

\* the integers of [-2^63, 2^63) that are tried: around every power of two,
\* and bit patterns of every length
IntInputs ==
    LET mags == {Pow2(k) : k \in 0..62} \cup {Pow2m1(k) : k \in 0..63}
                \cup {Mag(<<m>>) : m \in 0..9}
                \cup {Mag(SubSeq(<<\H01, \H23, \H45, \H67, \H89, \HAB, \HCD, \HEF>>,
                                 1, k)) : k \in 1..8}
                \cup {Mag(SubSeq(<<\H7E, \HDC, \HBA, \H98, \H76, \H54, \H32, \H10>>,
                                 1, k)) : k \in 1..8}
    IN  {[neg |-> FALSE, mag |-> m] : m \in mags}
        \cup {[neg |-> TRUE, mag |-> m] : m \in (mags \cup {Pow2(63)}) \ {Mag(<<>>)}}

\* VarInt(): self.value = 0
VarIntNew == [neg |-> FALSE, mag |-> Mag(<<>>)]

\* a VarInt(n) is about to be encoded
InitVarInt ==
    /\ vi_value \in IntInputs
    /\ vi_bytes = <<>>
    /\ vi_self = VarIntNew
    /\ vi_ret = Decoded("ok", VarIntNew, None)
    /\ vi_pc = "new"

\* the integers given to encode alone: those, and the values from 2^63 up to
\* 2^64 - 1
EncodeInputs ==
    IntInputs \cup {[neg |-> FALSE, mag |-> m] :
                       m \in {Pow2(63), Pow2m1(64),
                              Mag(<<\H80, 0, 0, 0, 0, 0, 0, 1>>),
                              Mag(<<\HFE, \HDC, \HBA, \H98, \H76, \H54, \H32, \H10>>)}}

\* a VarInt(n) is about to be encoded, n anywhere in (-2^63, 2^64)
InitVarIntWide ==
    /\ vi_value \in EncodeInputs
    /\ vi_bytes = <<>>
    /\ vi_self = VarIntNew
    /\ vi_ret = Decoded("ok", VarIntNew, None)
    /\ vi_pc = "new"

\* the variables of the codec when it is not used
IdleVarInt ==
    /\ vi_value = VarIntNew
    /\ vi_bytes = <<>>
    /\ vi_self = VarIntNew
    /\ vi_ret = Decoded("ok", VarIntNew, None)
    /\ vi_pc = "new"

\* bytes = VarInt(vi_value).encode()
VarIntEncode ==
    /\ vi_pc = "new"
    /\ vi_bytes' = Encode(vi_value)
    /\ vi_pc' = "encoded"
    /\ UNCHANGED <<vi_value, vi_self, vi_ret>>

\* size = VarInt().decode(bytes)
VarIntDecode ==
    /\ vi_pc = "encoded"
    /\ vi_ret' = Decode(vi_bytes, vi_self)
    /\ vi_self' = vi_ret'.value
    /\ vi_pc' = "decoded"
    /\ UNCHANGED <<vi_value, vi_bytes>>

----------------------------------------------------------------------------
(* Python dicts: a dict is a function from its keys; a protobuf message is *)
(* the function from the names of the fields that are set (ListFields,     *)
(* HasField) to their values.                                              *)

EmptyDict == [k \in {} |-> k]

Put(d, k, v) == (k :> v) @@ d

Del(d, k) == [x \in DOMAIN d \ {k} |-> d[x]]

HasField(message, name) == name \in DOMAIN message

----------------------------------------------------------------------------
(* blobs.py: Blobs.  A hash is a string; struct.unpack("!5I", hash) needs  *)
(* it to be 20 bytes long, which the hashes of Hashes20 are and ShortHash  *)
(* is not.                                                                 *)

Hashes20 == {"h1", "h2"}

ShortHash == "short"

\* what an operation that uses the blobs works on: the cache, the messages
\* sent to the server so far, the history of fetches, and whether an
\* exception is on its way out
Env(b, s, f) == [blobs |-> b, sent |-> s, fetches |-> f, raised |-> FALSE]

\* a cache that knows nothing
BlobNeverKnown(b, hash) == FALSE

\* "hash in self"
BlobKnown(b, hash) == hash \in DOMAIN b

\* the RequestBlob message of get_user_comment (kind "session_comment"),
\* get_user_texture ("session_texture"), get_channel_description
\* ("channel_description")
RequestBlob(kind, hash) == [type |-> "RequestBlob", kind |-> kind, hash |-> hash]

\* Blobs.get_user_comment / get_user_texture / get_channel_description
BlobsGet(env, kind, hash) ==
    LET fetch(request) == [hash |-> hash, cache |-> DOMAIN env.blobs,
                           sent |-> request]
    IN  IF BlobKnown(env.blobs, hash)
        THEN [env EXCEPT !.fetches = Append(@, fetch(FALSE))]
        ELSE IF hash \notin Hashes20
        THEN \* struct.error
             [env EXCEPT !.fetches = Append(@, fetch(FALSE)), !.raised = TRUE]
        ELSE [env EXCEPT !.fetches = Append(@, fetch(TRUE)),
                         !.sent = Append(@, RequestBlob(kind, hash))]

\* self.mumble_object.blobs[hash] = bytes
BlobStore(env, hash, bytes) == [env EXCEPT !.blobs = Put(@, hash, bytes)]

\* the hash field of a state message: the inline bytes are cached when they
\* come with it, otherwise the blob is fetched
BlobField(env, message, hashField, bytesField, kind) ==
    IF env.raised \/ ~HasField(message, hashField) THEN env
    ELSE IF HasField(message, bytesField)
    THEN BlobStore(env, message[hashField], message[bytesField])
    ELSE BlobsGet(env, kind, message[hashField])

----------------------------------------------------------------------------
(* users.py, channels.py: update_field *)

\* an update_field that never compares
FieldAlwaysChanged(d, name, field) == TRUE

\* update_field: "name not in self or self[name] != field"
FieldChanged(d, name, field) == name \notin DOMAIN d \/ d[name] # field

\* update_field for every field of names, in turn: the dict afterwards and
\* the actions collected
UpdateFields(d, message, names) ==
    LET changed == {n \in names : FieldChanged(d, n, message[n])}
    IN  [dict    |-> [k \in DOMAIN d \cup changed |->
                        IF k \in changed THEN message[k] ELSE d[k]],
         actions |-> [k \in changed |-> message[k]]]

----------------------------------------------------------------------------
(* channels.py: Channel and Channels.  A Channel object is known by its    *)
(* channel_id: __init__ sets self["channel_id"] and every later message    *)
(* for the object carries the same id.                                     *)

\* Channel.update(message) on the channel dict d
ChannelUpdate(d, message, env) ==
    LET u1 == UpdateFields(d, message,
                  DOMAIN message \ {"session", "actor", "description_hash"})
        u2 == UpdateFields(u1.dict, message,
                  DOMAIN message \cap {"description_hash"})
    IN  [dict    |-> u2.dict,
         actions |-> u2.actions @@ u1.actions,
         env     |-> BlobField(env, message, "description_hash", "description",
                               "channel_description")]

\* Channel.__init__(message)
ChannelNew(message, env) ==
    ChannelUpdate("channel_id" :> message["channel_id"], message, env)

\* Channels.update(message).  An exception raised while the message is
\* applied leaves the method with the lock held and no callback called.
ChannelsUpdate(message) ==
    /\ ~chan_lock
    /\ LET id  == message["channel_id"]
           new == id \notin DOMAIN channels
           r   == IF new THEN ChannelNew(message, Env(blobs, sent, fetches))
                  ELSE ChannelUpdate(channels[id], message,
                                     Env(blobs, sent, fetches))
       IN  /\ blobs' = r.env.blobs
           /\ sent' = r.env.sent
           /\ fetches' = r.env.fetches
           /\ IF r.env.raised
              THEN /\ chan_lock' = TRUE
                   /\ channels' = IF new THEN channels
                                  ELSE Put(channels, id, r.dict)
                   /\ cb_log' = cb_log
              ELSE /\ chan_lock' = FALSE
                   /\ channels' = Put(channels, id, r.dict)
                   /\ cb_log' = Append(cb_log,
                         [kind |-> IF new THEN "CHANNELCREATED"
                                   ELSE "CHANNELUPDATED",
                          id |-> id,
                          actions |-> IF new THEN EmptyDict ELSE r.actions])
    /\ nmsg' = nmsg + 1
    /\ UNCHANGED <<users, users_lock, myself, myself_session, gt_pc,
                   gt_channel, gt_current, gt_tree>>

\* Channels.remove(id)
ChannelsRemove(id) ==
    /\ ~chan_lock
    /\ IF id \in DOMAIN channels
       THEN /\ channels' = Del(channels, id)
            /\ cb_log' = Append(cb_log, [kind |-> "CHANNELREMOVED", id |-> id,
                                         actions |-> EmptyDict])
       ELSE UNCHANGED <<channels, cb_log>>
    /\ nmsg' = nmsg + 1
    /\ UNCHANGED <<chan_lock, blobs, sent, fetches, users, users_lock, myself,
                   myself_session, gt_pc, gt_channel, gt_current, gt_tree>>

\* how many channels get_tree may put into its list before the model stops
\* following the call
MaxTree == 4

\* get_tree(channel) is called: tree = list(); current = channel
GetTreeCall(c) ==
    /\ gt_pc \in {"idle", "done", "raised"}
    /\ c \in DOMAIN channels
    /\ gt_pc' = "loop"
    /\ gt_channel' = c
    /\ gt_current' = c
    /\ gt_tree' = <<>>
    /\ UNCHANGED <<channels, chan_lock, blobs, sent, fetches, cb_log, nmsg,
                   users, users_lock, myself, myself_session>>

\* get_tree: the key of "current = self[current["channel_id"]]"
TreeNextKey(current) == current

\* get_tree: one test of the while loop, and either one round of its body or
\* the statements after it; a key that is not in the table raises KeyError
GetTreeStep ==
    /\ gt_pc = "loop"
    /\ Len(gt_tree) < MaxTree
    /\ IF gt_current # 0
       THEN /\ gt_tree' = <<gt_current>> \o gt_tree
            /\ IF TreeNextKey(gt_current) \in DOMAIN channels
               THEN gt_current' = TreeNextKey(gt_current) /\ gt_pc' = "loop"
               ELSE gt_current' = gt_current /\ gt_pc' = "raised"
       ELSE /\ gt_current' = gt_current
            /\ IF 0 \in DOMAIN channels
               THEN gt_tree' = <<0>> \o gt_tree /\ gt_pc' = "done"
               ELSE gt_tree' = gt_tree /\ gt_pc' = "raised"
    /\ UNCHANGED <<gt_channel, channels, chan_lock, blobs, sent, fetches,
                   cb_log, nmsg, users, users_lock, myself, myself_session>>

----------------------------------------------------------------------------
(* users.py: User and Users.  A User object is known by the number of the  *)
(* message that created it, kept under the key "_obj" of its dict.         *)

\* a User.update that leaves the message's actor out of the diff
UserUpdateWithoutActor(d, message, env) ==
    LET u     == UpdateFields(d, message,
                     DOMAIN message \ {"session", "actor", "comment", "texture"})
        env1  == BlobField(env, message, "comment_hash", "comment",
                           "session_comment")
        env2  == BlobField(env1, message, "texture_hash", "texture",
                           "session_texture")
    IN  [dict |-> u.dict, actions |-> u.actions, env |-> env2]

\* User.update(message) on the user dict d
UserUpdate(d, message, env) ==
    LET actor == IF HasField(message, "actor")
                 THEN "actor" :> message["actor"] ELSE EmptyDict
        u     == UpdateFields(d, message,
                     DOMAIN message \ {"session", "actor", "comment", "texture"})
        env1  == BlobField(env, message, "comment_hash", "comment",
                           "session_comment")
        env2  == BlobField(env1, message, "texture_hash", "texture",
                           "session_texture")
    IN  [dict |-> u.dict, actions |-> u.actions @@ actor, env |-> env2]

\* User.__init__(message)
UserNew(message, obj, env) ==
    UserUpdate(("_obj" :> obj) @@ ("session" :> message["session"])
                   @@ ("channel_id" :> 0),
               message, env)

\* Users.update(message).  An exception raised while the message is applied
\* leaves the method with the lock held and no callback called.
UsersUpdate(message) ==
    /\ ~users_lock
    /\ LET session == message["session"]
           new == session \notin DOMAIN users
           r   == IF new
                  THEN UserNew(message, nmsg, Env(blobs, sent, fetches))
                  ELSE UserUpdate(users[session], message,
                                  Env(blobs, sent, fetches))
       IN  /\ blobs' = r.env.blobs
           /\ sent' = r.env.sent
           /\ fetches' = r.env.fetches
           /\ IF r.env.raised
              THEN /\ users_lock' = TRUE
                   /\ users' = IF new THEN users
                               ELSE Put(users, session, r.dict)
                   /\ UNCHANGED <<cb_log, myself>>
              ELSE /\ users_lock' = FALSE
                   /\ users' = Put(users, session, r.dict)
                   /\ cb_log' = Append(cb_log,
                         [kind |-> IF new THEN "USERCREATED" ELSE "USERUPDATED",
                          id |-> session,
                          actions |-> IF new THEN EmptyDict ELSE r.actions])
                   /\ myself' = IF new /\ session = myself_session
                                THEN r.dict["_obj"] ELSE myself
    /\ nmsg' = nmsg + 1
    /\ UNCHANGED <<myself_session, channels, chan_lock, gt_pc, gt_channel,
                   gt_current, gt_tree>>

\* Users.remove(message)
UsersRemove(session) ==
    /\ ~users_lock
    /\ IF session \in DOMAIN users
       THEN /\ users' = Del(users, session)
            /\ cb_log' = Append(cb_log, [kind |-> "USERREMOVED",
                                         id |-> session, actions |-> EmptyDict])
       ELSE UNCHANGED <<users, cb_log>>
    /\ nmsg' = nmsg + 1
    /\ UNCHANGED <<users_lock, myself, myself_session, blobs, sent, fetches,
                   channels, chan_lock, gt_pc, gt_channel, gt_current, gt_tree>>

\* Users.set_myself(session)
SetMyself(session) ==
    /\ myself_session' = session
    /\ myself' = IF session \in DOMAIN users THEN users[session]["_obj"]
                 ELSE myself
    /\ nmsg' = nmsg + 1
    /\ UNCHANGED <<users, users_lock, cb_log, blobs, sent, fetches, channels,
                   chan_lock, gt_pc, gt_channel, gt_current, gt_tree>>

\* a direct call of blobs.get_user_comment / get_user_texture /
\* get_channel_description
BlobsGetCall(kind, hash) ==
    /\ LET env == BlobsGet(Env(blobs, sent, fetches), kind, hash)
       IN  /\ sent' = env.sent
           /\ fetches' = env.fetches
    /\ nmsg' = nmsg + 1
    /\ UNCHANGED <<blobs, users, users_lock, myself, myself_session, cb_log,
                   channels, chan_lock, gt_pc, gt_channel, gt_current, gt_tree>>

\* Users.__init__, Channels.__init__, Blobs.__init__; no get_tree is running
InitShadows ==
    /\ users = EmptyDict
    /\ users_lock = FALSE
    /\ myself = None
    /\ myself_session = None
    /\ channels = EmptyDict
    /\ chan_lock = FALSE
    /\ blobs = EmptyDict
    /\ sent = <<>>
    /\ fetches = <<>>
    /\ cb_log = <<>>
    /\ nmsg = 0
    /\ gt_pc = "idle"
    /\ gt_channel = None
    /\ gt_current = None
    /\ gt_tree = <<>>

----------------------------------------------------------------------------
(* channels.py: find_by_tree and get_childs.  Every channel of the model   *)
(* has a name.                                                             *)

\* get_childs(channel): the items whose "parent" is true (present and not 0)
\* and equal to the channel's id
GetChilds(chs, channel) ==
    {c \in DOMAIN chs : /\ HasField(chs[c], "parent")
                        /\ chs[c]["parent"] # 0
                        /\ chs[c]["parent"] = channel}

\* the host calls get_childs(channel) for a channel of the table
GetChildsCall(channel) ==
    /\ channel \in DOMAIN channels
    /\ call' = [op |-> "get_childs", channel |-> channel, table |-> channels,
                ret |-> GetChilds(channels, channel)]
    /\ UNCHANGED NotCall

\* "self.get_childs(current).values()": get_childs returns a list, and a
\* list has no attribute "values"
ChildsHaveValues == FALSE

\* find_by_tree: the loop over the names of tree, from current on
RECURSIVE FindWalk(_, _, _)
FindWalk(chs, current, tree) ==
    IF tree = <<>> THEN [err |-> "ok", channel |-> current]
    ELSE IF ~ChildsHaveValues
    THEN [err |-> "AttributeError", channel |-> None]
    ELSE LET found == {c \in GetChilds(chs, current) :
                          chs[c]["name"] = Head(tree)}
         IN  IF found = {}
             THEN [err |-> "UnknownChannelError", channel |-> None]
             ELSE FindWalk(chs, CHOOSE c \in found : \A d \in found : c <= d,
                           Tail(tree))

\* find_by_tree(tree)
FindByTree(chs, tree) ==
    IF 0 \notin DOMAIN chs THEN [err |-> "KeyError", channel |-> None]
    ELSE FindWalk(chs, 0, tree)

\* the host calls find_by_tree(tree)
FindByTreeCall(tree) ==
    /\ call' = [op |-> "find_by_tree", tree |-> tree, table |-> channels,
                ret |-> FindByTree(channels, tree)]
    /\ UNCHANGED NotCall

----------------------------------------------------------------------------
(* channels.py, users.py: send_text_message.  A text is known by its       *)
(* length and by whether it contains both "<img" and "src", which takes at *)
(* least the seven characters of the two.  The limits are what             *)
(* get_max_message_length() and get_max_image_length() return.             *)

Text(len, img) == [len |-> len, img |-> img]

\* plain texts, and texts with an image (seven characters or more)
Texts == {Text(6, FALSE), Text(8, FALSE), Text(10, FALSE),
          Text(8, TRUE), Text(10, TRUE)}

Limits == {0, 7, 9}

\* "len(message) > self.mumble_object.get_max_image_length() != 0"
OverImageLimit(text, max_image_length) ==
    text.len > max_image_length /\ max_image_length # 0

\* Channel.send_text_message, up to the construction of the command
ChannelTextGuard(text, max_image_length, max_message_length, session) ==
    IF OverImageLimit(text, max_image_length) THEN "ImageTooBigError"
    ELSE IF /\ ~text.img
            /\ text.len > max_message_length /\ max_message_length # 0
    THEN "TextTooLongError"
    ELSE IF session = None THEN "AssertionError"
    ELSE "ok"

\* User.send_text_message, up to the construction of the command
UserTextGuard(text, max_image_length, max_message_length) ==
    IF OverImageLimit(text, max_image_length) THEN "ImageTooBigError"
    ELSE IF ~text.img /\ text.len > max_message_length
    THEN "TextTooLongError"
    ELSE "ok"

\* send_text_message on a Channel or a User by host thread h: the guard,
\* and when it passes the command is constructed and given to new_cmd
SendTextMessage(h, on, text, max_image_length, max_message_length) ==
    LET err == IF on = "Channel"
               THEN ChannelTextGuard(text, max_image_length,
                                     max_message_length, myself_session)
               ELSE UserTextGuard(text, max_image_length, max_message_length)
    IN  /\ pc[h] \in {"idle", "raised"}
        /\ Len(cmd) < MaxCmds
        /\ call' = [op |-> "send_text_message", on |-> on, text |-> text,
                    max_image_length |-> max_image_length,
                    max_message_length |-> max_message_length,
                    session |-> myself_session, err |-> err]
        /\ IF err = "ok"
           THEN HostConstruct(h, IF on = "Channel" THEN "TextMessage"
                                 ELSE "TextPrivateMessage")
           ELSE UNCHANGED cmdVars
        /\ UNCHANGED <<sqVars, viVars, shVars, thVars>>

----------------------------------------------------------------------------
(* users.py, channels.py: update_field called on its own *)

\* update_field(name, field) on the dict d: the dict afterwards and the
\* actions returned
UpdateField(d, name, field) ==
    IF FieldChanged(d, name, field)
    THEN [dict |-> Put(d, name, field), actions |-> name :> field]
    ELSE [dict |-> d, actions |-> EmptyDict]

\* what is remembered of a call of update_field; repeat tells that the call
\* before it was the same call on the same object
FieldCall(on, id, name, field, d, r) ==
    [op |-> "update_field", on |-> on, id |-> id, name |-> name,
     field |-> field, before |-> d, after |-> r.dict, actions |-> r.actions,
     repeat |-> /\ call.op = "update_field"
                /\ <<call.on, call.id, call.name, call.field>>
                       = <<on, id, name, field>>
                /\ call.after = d]

\* the host calls update_field on the User of a session
UserUpdateField(session, name, field) ==
    /\ session \in DOMAIN users
    /\ LET r == UpdateField(users[session], name, field)
       IN  /\ users' = Put(users, session, r.dict)
           /\ call' = FieldCall("User", session, name, field, users[session], r)
    /\ UNCHANGED <<users_lock, myself, myself_session, channels, chan_lock,
                   blobs, sent, fetches, cb_log, nmsg, gt_pc, gt_channel,
                   gt_current, gt_tree, sqVars, cmdVars, viVars, thVars>>

\* the host calls update_field on the Channel of an id
ChannelUpdateField(id, name, field) ==
    /\ id \in DOMAIN channels
    /\ LET r == UpdateField(channels[id], name, field)
       IN  /\ channels' = Put(channels, id, r.dict)
           /\ call' = FieldCall("Channel", id, name, field, channels[id], r)
    /\ UNCHANGED <<users, users_lock, myself, myself_session, chan_lock,
                   blobs, sent, fetches, cb_log, nmsg, gt_pc, gt_channel,
                   gt_current, gt_tree, sqVars, cmdVars, viVars, thVars>>

\* no call was made
InitCall == call = [op |-> "none"]

----------------------------------------------------------------------------
(* The state after construction *)

InitAll ==
    /\ InitSoundQueue /\ InitCommands /\ IdleVarInt /\ InitShadows /\ InitCall
    /\ InitThreads

----------------------------------------------------------------------------
(* Specification SpecQueue: frames of one size arrive in any order of      *)
(* sequence numbers while the clock advances; whole chunks are drained.    *)

InitQueue == InitAll

AddOrdered ==
    \E s \in Seqs, t \in {PYMUMBLE_AUDIO_TYPE_OPUS, 0}, ok \in BOOLEAN :
        Add(Pcm(Len(arrived), 1), ok, s, t, 0)

GetWhole == Len(got) < MaxAdds /\ GetSound(None)

NextQueue ==
    \/ AddOrdered /\ UNCHANGED NotSq
    \/ GetWhole /\ UNCHANGED NotSq
    \/ Tick /\ UNCHANGED NotSq

SpecQueue == InitQueue /\ [][NextQueue]_vars

----------------------------------------------------------------------------
(* Claims about the ordering of the sound queue *)

\* C1: after any sequence of add calls, every pair of adjacent queue entries
\* satisfies queue[i].time >= queue[i+1].time (the tail has the minimum
\* playout time, the head the maximum).
C1_QueueOrdered ==
    \A i \in 1..(Len(queue) - 1) : queue[i].time >= queue[i + 1].time

\* a step in which add decoded a frame and queued it
AddQueued == arrived' # arrived

\* C8: add of a decodable frame with sequence s begins a new burst exactly
\* when no burst is active or s <= start_sequence (anchor := (clock, s),
\* chunk time = clock); otherwise the anchor is unchanged and the chunk time
\* is start_time + (s - start_sequence) * PYMUMBLE_SEQUENCE_DURATION, for
\* an anchor at any sequence number >= 0.
C8_PlayoutTimeRule ==
    [][AddQueued =>
         LET s == Last(arrived')
             c == sq_ret'[1]
         IN  IF start_sequence = None \/ s <= start_sequence
             THEN /\ start_time' = clock
                  /\ start_sequence' = s
                  /\ c.time = clock
             ELSE /\ UNCHANGED <<start_sequence, start_time>>
                  /\ c.time = start_time
                       + (s - start_sequence) * PYMUMBLE_SEQUENCE_DURATION]_vars

\* the frames a[1], a[1]+1, ... of one burst, arrived with the burst's first
\* frame first and one later frame delayed by a single position
OneDelayed(a) ==
    /\ Len(a) >= 3
    /\ \E k \in 2..(Len(a) - 1) :
          a = [i \in 1..Len(a) |->
                 IF i = k THEN a[1] + k
                 ELSE IF i = k + 1 THEN a[1] + k - 1
                 ELSE a[1] + i - 1]

\* every queued frame was returned by a get_sound called after the last add
Drained ==
    /\ Len(got) = Len(arrived)
    /\ \A i \in 1..Len(got) : got[i].after = Len(arrived) /\ got[i].ret # <<>>

\* C9: when the frames of one burst arrive on a fresh queue with one frame
\* delayed by a single position, repeated get_sound() returns the chunks in
\* ascending sequence order.
C9_ReorderedAudio ==
    (OneDelayed(arrived) /\ Drained) =>
        \A i \in 1..Len(got) : got[i].ret[1].sequence = arrived[1] + i - 1

----------------------------------------------------------------------------
(* Specification SpecSplit: an in-order stream of frames of several sizes  *)
(* is drained in slices of every duration up to the longest frame's.       *)

\* how many get_sound calls one behaviour of SpecSplit makes
MaxGets == 3

AddSized ==
    \E n \in 1..MaxSamples :
        Add(Pcm(Len(arrived), n), TRUE, Len(arrived) + 1,
            PYMUMBLE_AUDIO_TYPE_OPUS, 0)

GetSlice ==
    /\ Len(got) < MaxGets
    /\ \E d \in 1..(2 * MaxSamples * TicksPerByte) : GetSound(d)

NextSplit ==
    \/ AddSized /\ UNCHANGED NotSq
    \/ GetSlice /\ UNCHANGED NotSq

SpecSplit == InitAll /\ [][NextSplit]_vars

\* a step in which get_sound(d) found a tail chunk longer than d and split it
SplitStep ==
    /\ got' # got
    /\ queue # <<>>
    /\ Last(got').duration # None
    /\ 0 < Last(got').duration
    /\ Last(got').duration < Last(queue).duration

\* C7: for any chunk c and any d with 0 < d < c.duration, a = extract_sound(d)
\* leaves the remainder c' with a.pcm \o c'.pcm = c.pcm, a.duration +
\* c'.duration = c.duration, a.size + c'.size = c.size and c'.time = c.time + d.
C7_SplitConservation ==
    [][SplitStep =>
         LET c  == Last(queue)
             c2 == Last(queue')
             a  == Last(got').ret[1]
             d  == Last(got').duration
         IN  /\ a.pcm \o c2.pcm = c.pcm
             /\ a.duration + c2.duration = c.duration
             /\ a.size + c2.size = c.size
             /\ c2.time = c.time + d]_vars

----------------------------------------------------------------------------
(* Specification SpecCmd: host threads enqueue commands, with and without  *)
(* an envelope, while the runtime thread pops and answers them; every      *)
(* statement of new_cmd and pop_cmd is a step of its own.                  *)

NextCmd ==
    \/ \E h \in Hosts, kind \in {"MoveCmd", "ModUserState"} :
          HostConstruct(h, kind) /\ UNCHANGED NotCmd
    \/ \E h \in Hosts : NewCmdAcquire(h) /\ UNCHANGED NotCmd
    \/ \E h \in Hosts : NewCmdInc(h) /\ UNCHANGED NotCmd
    \/ \E h \in Hosts : NewCmdSetId(h) /\ UNCHANGED NotCmd
    \/ \E h \in Hosts : NewCmdAppend(h) /\ UNCHANGED NotCmd
    \/ \E h \in Hosts : NewCmdLockCmd(h) /\ UNCHANGED NotCmd
    \/ \E h \in Hosts : NewCmdRelease(h) /\ UNCHANGED NotCmd
    \/ \E h \in Hosts : HostWait(h) /\ UNCHANGED NotCmd
    \/ \E h \in Hosts : HostNoWait(h) /\ UNCHANGED NotCmd
    \/ PopCmdAcquire /\ UNCHANGED NotCmd
    \/ PopCmdBody /\ UNCHANGED NotCmd
    \/ PopCmdRelease /\ UNCHANGED NotCmd
    \/ Answer /\ UNCHANGED NotCmd

SpecCmd == InitAll /\ [][NextCmd]_vars

Reverse(s) == [i \in 1..Len(s) |-> s[Len(s) + 1 - i]]

Range(s) == {s[i] : i \in 1..Len(s)}

\* the step of pop_cmd that looks at the queue
PopStep == rt_pc = "pop" /\ rt_pc' = "pop_release"

\* C2: pop_cmd returns the commands in exactly the order in which new_cmd
\* enqueued them (ascending cmd_id) and none twice, in every interleaving of
\* the enqueuing threads and the runtime: the commands popped, followed by
\* the queue from its pop side, are always the commands enqueued; pop_cmd on
\* an empty queue returns None and changes nothing.
C2_FifoDispatch ==
    [][/\ popped' \o Reverse(cmd_queue') = enq'
       /\ PopStep =>
            IF cmd_queue = <<>>
            THEN /\ rt_cmd' = None
                 /\ UNCHANGED <<cmd_queue, cmds_id, cmd, enq, popped>>
            ELSE /\ rt_cmd' = enq[Len(popped) + 1]
                 /\ popped' = Append(popped, rt_cmd')
                 /\ \A i \in 1..Len(popped) :
                       cmd[popped[i]].cmd_id < cmd[rt_cmd'].cmd_id]_vars

\* commands of both host threads were popped, then the queue was found empty
C2_Witness ==
    /\ Len(popped) >= 2
    /\ cmd[popped[1]].host # cmd[popped[2]].host
    /\ rt_pc = "pop_release"
    /\ rt_cmd = None

\* the commands that have been given an id
WithId == {c \in 1..Len(cmd) : cmd[c].cmd_id \notin {None, Absent}}

\* C3: the ids new_cmd assigns are strictly increasing in enqueue order and
\* unique, also with several host threads in new_cmd at once, and the order
\* of the commands in the queue is the order of their ids.
C3_IdsIncreasing ==
    /\ \A a, b \in WithId : a # b => cmd[a].cmd_id # cmd[b].cmd_id
    /\ \A i, j \in 1..Len(enq) :
          i < j => cmd[enq[i]].cmd_id < cmd[enq[j]].cmd_id
    /\ \A i, j \in 1..Len(cmd_queue) :
          i < j => cmd[cmd_queue[i]].cmd_id > cmd[cmd_queue[j]].cmd_id

\* two commands of different host threads are queued while a thread waits
\* for the queue's lock
C3_Witness ==
    /\ Len(cmd_queue) >= 2
    /\ cmd[cmd_queue[1]].host # cmd[cmd_queue[2]].host
    /\ \E h \in Hosts : pc[h] = "acquire" /\ cmds_lock

\* C4: the completion signal is held when new_cmd returns and stays held
\* until answer is called for that same command: only answer(c) releases
\* c's signal, answer(c) releases no other signal, and a host that waited on
\* the signal of c proceeds only after c was popped and answered.
C4_SignalHeldUntilAnswered ==
    [][/\ \A h \in Hosts :
             (pc[h] = "release" /\ pc'[h] = "returned")
                 => cmd'[cur[h]].lock = "held"
       /\ \A c \in 1..Len(cmd) :
             (cmd[c].lock = "held" /\ cmd'[c].lock # "held")
                 => rt_pc = "answer" /\ rt_cmd = c /\ c \in answered'
       /\ \A c \in proceeded' : c \in answered' /\ c \in Range(popped')]_vars

\* a host waited on its signal and proceeded while the signal of another
\* command, answered by no one yet, is still held
C4_Witness ==
    /\ proceeded # {}
    /\ \E c \in 1..Len(cmd) :
          cmd[c].lock = "held" /\ c \notin answered /\ c \in Range(popped)

----------------------------------------------------------------------------
(* Specification SpecVarInt: an integer of [-2^63, 2^63) is encoded and    *)
(* the bytes are decoded by a fresh VarInt.                                *)

InitCodec ==
    /\ InitSoundQueue /\ InitCommands /\ InitVarInt /\ InitShadows /\ InitCall
    /\ InitThreads

NextVarInt ==
    \/ VarIntEncode /\ UNCHANGED NotVi
    \/ VarIntDecode /\ UNCHANGED NotVi

SpecVarInt == InitCodec /\ [][NextVarInt]_vars

\* C5: for every integer n in [-2^63, 2^63), decoding VarInt(n).encode()
\* sets value to n and returns the number of bytes encode produced.
C5_VarIntRoundTrip ==
    vi_pc = "decoded" =>
        /\ vi_ret.err = "ok"
        /\ vi_self = vi_value
        /\ vi_ret.size = Len(vi_bytes)

\* -2^63 went through its 10 bytes and came back
C5_Witness ==
    /\ vi_pc = "decoded"
    /\ vi_value = [neg |-> TRUE, mag |-> Pow2(63)]
    /\ Len(vi_bytes) = 10
    /\ vi_self = vi_value

----------------------------------------------------------------------------
(* Specification SpecTree: the server announces channels, each under a     *)
(* parent that is present, and renames them; the host calls get_tree.      *)

\* how many messages and calls the shadows see in one behaviour
MaxMsgs == 3

\* the largest channel id
MaxChan == 2

ChanIds == 0..MaxChan

\* the ChannelState messages that keep the table a tree: the root has no
\* parent, any other channel names a present parent and keeps it
TreeMessages ==
    {("channel_id" :> 0) @@ ("name" :> n) : n \in {"Root", "Lobby"}}
    \cup UNION {{("channel_id" :> c) @@ ("parent" :> p) @@ ("name" :> n) :
                     p \in DOMAIN channels \ {c}, n \in {"Lobby", "Team"}} :
                 c \in ChanIds \ {0}}

KeepsParent(message) ==
    LET c == message["channel_id"]
    IN  (c \in DOMAIN channels /\ HasField(message, "parent"))
            => message["parent"] = channels[c]["parent"]

NextTree ==
    \/ \E m \in TreeMessages :
          /\ nmsg < MaxMsgs
          /\ KeepsParent(m)
          /\ ChannelsUpdate(m)
          /\ UNCHANGED NotSh
    \/ \E c \in ChanIds : GetTreeCall(c) /\ UNCHANGED NotSh
    \/ GetTreeStep /\ UNCHANGED NotSh

SpecTree == InitAll /\ [][NextTree]_vars

\* the channels from the root down to c, along the parent links
RECURSIVE Ancestry(_)
Ancestry(c) ==
    IF c = 0 THEN <<0>> ELSE Ancestry(channels[c]["parent"]) \o <<c>>

IsSuffix(s, t) ==
    Len(s) <= Len(t) /\ s = SubSeq(t, Len(t) - Len(s) + 1, Len(t))

\* C6: in a well-formed channel table get_tree(c) terminates for every
\* present channel c and returns c's ancestry from the root (first) down to
\* c (last): it raises nothing, what it has collected is at every moment the
\* lower end of the ancestry (so the loop ends after as many rounds as c has
\* ancestors), and what it returns is the ancestry.
C6_GetTreeAncestry ==
    /\ gt_pc # "raised"
    /\ gt_pc \in {"loop", "done"} => IsSuffix(gt_tree, Ancestry(gt_channel))
    /\ gt_pc = "done" => gt_tree = Ancestry(gt_channel)

----------------------------------------------------------------------------
(* Specification SpecBlob: state messages that carry blob hashes, with or  *)
(* without the bytes, direct calls of the Blobs.get_* methods, removals    *)
(* and set_myself.                                                         *)

BlobKinds == {"session_comment", "session_texture", "channel_description"}

\* the comment fields of a UserState message: none, a hash alone (one of
\* them too short), or a hash with its bytes
CommentParts ==
    {EmptyDict}
    \cup {"comment_hash" :> h : h \in Hashes20 \cup {ShortHash}}
    \cup {("comment_hash" :> h) @@ ("comment" :> "text") : h \in Hashes20}

TextureParts ==
    {EmptyDict, "texture_hash" :> "h1",
     ("texture_hash" :> "h1") @@ ("texture" :> "image")}

UserMessages ==
    {("session" :> 1) @@ c @@ t : c \in CommentParts, t \in TextureParts}

ChannelMessages ==
    {("channel_id" :> 0) @@ ("description_hash" :> h) : h \in Hashes20}
    \cup {("channel_id" :> 0) @@ ("description_hash" :> "h1")
              @@ ("description" :> "text")}

NextBlob ==
    \/ \E m \in UserMessages :
          nmsg < MaxMsgs /\ UsersUpdate(m) /\ UNCHANGED NotSh
    \/ \E m \in ChannelMessages :
          nmsg < MaxMsgs /\ ChannelsUpdate(m) /\ UNCHANGED NotSh
    \/ \E kind \in BlobKinds, h \in Hashes20 :
          nmsg < MaxMsgs /\ BlobsGetCall(kind, h) /\ UNCHANGED NotSh
    \/ nmsg < MaxMsgs /\ UsersRemove(1) /\ UNCHANGED NotSh
    \/ nmsg < MaxMsgs /\ ChannelsRemove(0) /\ UNCHANGED NotSh
    \/ nmsg < MaxMsgs /\ SetMyself(1) /\ UNCHANGED NotSh

SpecBlob == InitAll /\ [][NextBlob]_vars

\* the fetches that sent a request, in order
RECURSIVE Requested(_)
Requested(f) ==
    IF f = <<>> THEN <<>>
    ELSE IF Last(f).sent THEN Append(Requested(Front(f)), Last(f).hash)
    ELSE Requested(Front(f))

----------------------------------------------------------------------------
(* Specification SpecFind: the server announces channels, each under a     *)
(* present parent, and the host looks channels up by their path.           *)

\* the longest path given to find_by_tree
MaxPath == 2

PathNames == {"Lobby", "Team", "Ghost"}

Paths == UNION {[1..n -> PathNames] : n \in 0..MaxPath}

NextFind ==
    \/ \E m \in TreeMessages :
          /\ nmsg < MaxMsgs
          /\ KeepsParent(m)
          /\ ChannelsUpdate(m)
          /\ UNCHANGED NotSh
    \/ \E tree \in Paths : FindByTreeCall(tree)

SpecFind == InitAll /\ [][NextFind]_vars

\* the channels of chs whose parent is channel c
ChildrenOf(chs, c) ==
    {x \in DOMAIN chs : HasField(chs[x], "parent") /\ chs[x]["parent"] = c}

\* the channels that the path tree leads to, from channel c down
RECURSIVE Reached(_, _, _)
Reached(chs, c, tree) ==
    IF tree = <<>> THEN {c}
    ELSE UNION {Reached(chs, x, Tail(tree)) :
                   x \in {y \in ChildrenOf(chs, c) : chs[y]["name"] = Head(tree)}}

\* no channel has two children of one name
SiblingNamesDiffer(chs) ==
    \A x, y \in DOMAIN chs \ {0} :
        (chs[x]["parent"] = chs[y]["parent"] /\ chs[x]["name"] = chs[y]["name"])
            => x = y

\* the table of the example: 0 Root, 1 Lobby under 0, 2 Team under 1
ExampleTable(chs) ==
    /\ DOMAIN chs = {0, 1, 2}
    /\ chs[0]["name"] = "Root"
    /\ chs[1]["name"] = "Lobby" /\ chs[1]["parent"] = 0
    /\ chs[2]["name"] = "Team"  /\ chs[2]["parent"] = 1

\* C11: find_by_tree(path), called on a table with a root in which no two
\* children of one channel share a name, returns the channel that the path
\* leads to from the root, child by child, matching names; when a level has
\* no child of that name it raises UnknownChannelError; on the example table
\* [Lobby, Team] returns channel 2 and [Lobby, Ghost] raises
\* UnknownChannelError.
C11_FindByTree ==
    (/\ call.op = "find_by_tree"
     /\ 0 \in DOMAIN call.table
     /\ SiblingNamesDiffer(call.table))
    => LET reached == Reached(call.table, 0, call.tree)
       IN  /\ reached = {} => call.ret.err = "UnknownChannelError"
           /\ reached # {} => /\ call.ret.err = "ok"
                              /\ call.ret.channel \in reached
           /\ (ExampleTable(call.table) /\ call.tree = <<"Lobby", "Team">>)
                  => call.ret = [err |-> "ok", channel |-> 2]
           /\ (ExampleTable(call.table) /\ call.tree = <<"Lobby", "Ghost">>)
                  => call.ret.err = "UnknownChannelError"

----------------------------------------------------------------------------
(* Specification SpecChan: the server announces channels, each under a     *)
(* present parent, and removes channels.                                   *)

\* how many messages the channel table sees in one behaviour
MaxChanMsgs == 4

NextChan ==
    \/ \E m \in TreeMessages :
          /\ nmsg < MaxChanMsgs
          /\ KeepsParent(m)
          /\ ChannelsUpdate(m)
          /\ UNCHANGED NotSh
    \/ \E id \in ChanIds :
          nmsg < MaxChanMsgs /\ ChannelsRemove(id) /\ UNCHANGED NotSh

SpecChan == InitAll /\ [][NextChan]_vars

\* C12: after any sequence of ChannelState messages, each naming a parent
\* that is present when it arrives, and ChannelRemove messages, the parent of
\* every present channel other than the root is the id of a present channel;
\* so after remove(id) no channel is left with parent = id.
C12_ParentPresent ==
    \A c \in DOMAIN channels \ {0} :
        HasField(channels[c], "parent")
            => channels[c]["parent"] \in DOMAIN channels

----------------------------------------------------------------------------
(* Specification SpecEncode: one integer of (-2^63, 2^64) is encoded.      *)

InitEncode ==
    /\ InitSoundQueue /\ InitCommands /\ InitVarIntWide /\ InitShadows /\ InitCall
    /\ InitThreads

NextEncode == VarIntEncode /\ UNCHANGED NotVi

SpecEncode == InitEncode /\ [][NextEncode]_vars

\* the integer n, for 0 <= n < 2^8, and -n
Small(n) == [neg |-> FALSE, mag |-> Mag(<<n>>)]

SmallNeg(n) == [neg |-> TRUE, mag |-> Mag(<<n>>)]

Encoded(v) == vi_pc = "encoded" /\ vi_value = v

\* C13 as stated: for n in [-4, -1] encode(n) is one byte of the form
\* 111111xx, with encode(-1) = [0xFD] and encode(-4) = [0xFC]; for every
\* other negative n it is 0xF8 followed by the encoding of |n|, with
\* encode(-5) = [0xF8, 0x05].
C13_ShortFormDownToMinus4 ==
    (vi_pc = "encoded" /\ vi_value.neg) =>
        /\ LeqMag(vi_value.mag, Mag(<<4>>))
              => /\ Len(vi_bytes) = 1
                 /\ BitAnd(vi_bytes[1], \b11111100) = \b11111100
        /\ ~LeqMag(vi_value.mag, Mag(<<4>>))
              => /\ vi_bytes[1] = \HF8
                 /\ Tail(vi_bytes) = Encode(Negate(vi_value))
        /\ vi_value = SmallNeg(1) => vi_bytes = <<\HFD>>
        /\ vi_value = SmallNeg(4) => vi_bytes = <<\HFC>>
        /\ vi_value = SmallNeg(5) => vi_bytes = <<\HF8, \H05>>

\* C13, amended: for n in [-3, -1] encode(n) is the one byte 0xFC | |n|
\* (encode(-1) = [0xFD], encode(-3) = [0xFF]); for every other negative n,
\* -4 included, it is 0xF8 followed by the encoding of |n|
\* (encode(-4) = [0xF8, 0x04], encode(-5) = [0xF8, 0x05]).
C13_ShortFormDownToMinus3 ==
    (vi_pc = "encoded" /\ vi_value.neg) =>
        /\ LeqMag(vi_value.mag, Mag(<<3>>))
              => vi_bytes = <<\HFC + vi_value.mag[8]>>
        /\ ~LeqMag(vi_value.mag, Mag(<<3>>))
              => /\ vi_bytes[1] = \HF8
                 /\ Tail(vi_bytes) = Encode(Negate(vi_value))
        /\ vi_value = SmallNeg(1) => vi_bytes = <<\HFD>>
        /\ vi_value = SmallNeg(3) => vi_bytes = <<\HFF>>
        /\ vi_value = SmallNeg(4) => vi_bytes = <<\HF8, \H04>>
        /\ vi_value = SmallNeg(5) => vi_bytes = <<\HF8, \H05>>

\* -4 was encoded, in two bytes
C13_Witness == Encoded(SmallNeg(4)) /\ Len(vi_bytes) = 2

\* the number of bytes of the shortest form that holds the value n >= 0
ShortestLength(n) ==
    IF LeqMag(n, Pow2m1(7)) THEN 1
    ELSE IF LeqMag(n, Pow2m1(14)) THEN 2
    ELSE IF LeqMag(n, Pow2m1(21)) THEN 3
    ELSE IF LeqMag(n, Pow2m1(28)) THEN 4
    ELSE IF LeqMag(n, Pow2m1(32)) THEN 5
    ELSE 9

\* the first-byte prefix of the form of each length: the mask and the bits
FormPrefix(len) ==
    CASE len = 1 -> [mask |-> \b10000000, bits |-> \b00000000]
      [] len = 2 -> [mask |-> \b11000000, bits |-> \b10000000]
      [] len = 3 -> [mask |-> \b11100000, bits |-> \b11000000]
      [] len = 4 -> [mask |-> \b11110000, bits |-> \b11100000]
      [] len = 5 -> [mask |-> \b11111100, bits |-> \b11110000]
      [] len = 9 -> [mask |-> \b11111100, bits |-> \b11110100]

\* the value that the bytes of a form carry after the prefix bits
Payload(bytes) ==
    IF Len(bytes) <= 4
    THEN Mag(<<bytes[1] - FormPrefix(Len(bytes)).bits>> \o Tail(bytes))
    ELSE Mag(Tail(bytes))

\* C14: for every n with 0 <= n < 2^64, encode(n) has 1 byte when
\* n <= 0x7F, 2 when n <= 0x3FFF, 3 when n <= 0x1FFFFF, 4 when
\* n <= 0xFFFFFFF, 5 when n <= 0xFFFFFFFF and 9 otherwise; its first byte has
\* the prefix bits of that form and the rest of its bits are n;
\* encode(0) = [0x00], encode(127) = [0x7F], encode(128) = [0x80, 0x80].
C14_ShortestForm ==
    (vi_pc = "encoded" /\ ~vi_value.neg) =>
        /\ Len(vi_bytes) = ShortestLength(vi_value.mag)
        /\ BitAnd(vi_bytes[1], FormPrefix(Len(vi_bytes)).mask)
               = FormPrefix(Len(vi_bytes)).bits
        /\ Payload(vi_bytes) = vi_value.mag
        /\ vi_value = Small(0) => vi_bytes = <<\H00>>
        /\ vi_value = Small(127) => vi_bytes = <<\H7F>>
        /\ vi_value = Small(128) => vi_bytes = <<\H80, \H80>>

\* 128 was encoded, in the two bytes of the example
C14_Witness == Encoded(Small(128)) /\ vi_bytes = <<\H80, \H80>>

----------------------------------------------------------------------------
(* Specification SpecText: a host thread sends texts to channels and users *)
(* under every setting of the two limits; set_myself is called.            *)

NextText ==
    \/ \E on \in {"Channel", "User"}, text \in Texts, mi \in Limits,
          mm \in Limits : SendTextMessage(1, on, text, mi, mm)
    \/ \E h \in Hosts : NewCmdAcquire(h) /\ UNCHANGED NotCmd
    \/ \E h \in Hosts : NewCmdInc(h) /\ UNCHANGED NotCmd
    \/ \E h \in Hosts : NewCmdSetId(h) /\ UNCHANGED NotCmd
    \/ \E h \in Hosts : NewCmdAppend(h) /\ UNCHANGED NotCmd
    \/ \E h \in Hosts : NewCmdLockCmd(h) /\ UNCHANGED NotCmd
    \/ \E h \in Hosts : NewCmdRelease(h) /\ UNCHANGED NotCmd
    \/ \E h \in Hosts : HostNoWait(h) /\ UNCHANGED NotCmd
    \/ nmsg < MaxMsgs /\ SetMyself(1) /\ UNCHANGED NotSh

SpecText == InitAll /\ [][NextText]_vars

\* C15: in send_text_message of a Channel or a User, a text that does not
\* contain both "<img" and "src" and is longer than max_message_length raises
\* TextTooLongError, whatever max_image_length is; a text that contains both
\* raises ImageTooBigError when it is longer than max_image_length and is
\* accepted otherwise (the session being known); when an error is raised no
\* command is constructed or enqueued.
C15_TextLengthGuard ==
    [][(call' # call /\ call'.op = "send_text_message") =>
          LET text == call'.text
          IN  /\ (~text.img /\ text.len > call'.max_message_length)
                    => call'.err = "TextTooLongError"
              /\ (text.img /\ text.len > call'.max_image_length)
                    => call'.err = "ImageTooBigError"
              /\ (/\ text.img /\ text.len <= call'.max_image_length
                  /\ call'.session # None)
                    => call'.err = "ok"
              /\ call'.err # "ok" => UNCHANGED cmdVars]_vars

----------------------------------------------------------------------------
(* Specification SpecField: a user and a channel are announced and         *)
(* renamed, and the host calls update_field on them.                       *)

FieldNames == {"name", "comment"}

FieldValues == {"a", "b"}

NextField ==
    \/ \E n \in FieldValues :
          /\ nmsg < MaxMsgs
          /\ UsersUpdate(("session" :> 1) @@ ("name" :> n))
          /\ UNCHANGED NotSh
    \/ \E n \in FieldValues :
          /\ nmsg < MaxMsgs
          /\ ChannelsUpdate(("channel_id" :> 0) @@ ("name" :> n))
          /\ UNCHANGED NotSh
    \/ \E name \in FieldNames, v \in FieldValues :
          UserUpdateField(1, name, v)
    \/ \E name \in FieldNames, v \in FieldValues :
          ChannelUpdateField(0, name, v)

SpecField == InitAll /\ [][NextField]_vars

\* C16: update_field(name, v) on a User or a Channel stores v and returns
\* {name: v} when name is absent or holds another value, leaving every other
\* attribute as it was; otherwise, as in a second call with the same v, it
\* returns an empty diff and leaves the attributes unchanged.
C16_DiffMinimality ==
    call.op = "update_field" =>
        LET changes == \/ call.name \notin DOMAIN call.before
                       \/ call.before[call.name] # call.field
        IN  /\ changes => /\ call.actions = (call.name :> call.field)
                          /\ call.after = Put(call.before, call.name, call.field)
            /\ ~changes => /\ call.actions = EmptyDict
                           /\ call.after = call.before
            /\ call.repeat => /\ call.actions = EmptyDict
                              /\ call.after = call.before

\* update_field("comment", v) on a User without a comment and then once more
C16_Witness ==
    /\ call.op = "update_field"
    /\ call.on = "User"
    /\ call.name = "comment"
    /\ call.repeat
    /\ call.actions = EmptyDict

----------------------------------------------------------------------------
(* Specification SpecUpsert: UserState and ChannelState messages that      *)
(* carry a name, for a user and a channel that may or may not be known.    *)

NextUpsert ==
    \/ \E n \in FieldValues :
          /\ nmsg < MaxMsgs
          /\ UsersUpdate(("session" :> 1) @@ ("name" :> n))
          /\ UNCHANGED NotSh
    \/ \E n \in FieldValues, c \in {0, 1} :
          /\ nmsg < MaxMsgs
          /\ ChannelsUpdate(("channel_id" :> c) @@ ("name" :> n))
          /\ UNCHANGED NotSh

SpecUpsert == InitAll /\ [][NextUpsert]_vars

\* the callbacks invoked by the step
NewCallbacks == SubSeq(cb_log', Len(cb_log) + 1, Len(cb_log'))

\* C17: a message of Users.update or Channels.update about a session or
\* channel_id seen for the first time invokes exactly one create callback and
\* no update callback; a message about a present entry invokes the update
\* callback, with a non-empty diff, when it changes something, and invokes no
\* callback when it changes nothing; it never invokes a create callback.
C17_UpsertCallbacks ==
    [][nmsg' # nmsg =>
          LET first == \/ DOMAIN users' # DOMAIN users
                       \/ DOMAIN channels' # DOMAIN channels
              same  == users' = users /\ channels' = channels
          IN  /\ first => /\ Len(NewCallbacks) = 1
                          /\ NewCallbacks[1].kind
                                 \in {"USERCREATED", "CHANNELCREATED"}
              /\ (~first /\ ~same)
                    => /\ Len(NewCallbacks) = 1
                       /\ NewCallbacks[1].kind
                              \in {"USERUPDATED", "CHANNELUPDATED"}
                       /\ NewCallbacks[1].actions # EmptyDict
              /\ same => NewCallbacks = <<>>]_vars

----------------------------------------------------------------------------
(* Specification SpecCache: state messages that carry a comment or a       *)
(* description hash, alone or with bytes, which are not always the same    *)
(* bytes for the same hash.                                                *)

BlobBytes == {"text", "other"}

CachedUserMessages ==
    {("session" :> 1) @@ ("comment_hash" :> h) : h \in Hashes20}
    \cup {("session" :> 1) @@ ("comment_hash" :> h) @@ ("comment" :> b) :
             h \in Hashes20, b \in BlobBytes}

CachedChannelMessages ==
    {("channel_id" :> 0) @@ ("description_hash" :> h) : h \in Hashes20}
    \cup {("channel_id" :> 0) @@ ("description_hash" :> h)
              @@ ("description" :> b) : h \in Hashes20, b \in BlobBytes}

NextCache ==
    \/ \E m \in CachedUserMessages :
          nmsg < MaxMsgs /\ UsersUpdate(m) /\ UNCHANGED NotSh
    \/ \E m \in CachedChannelMessages :
          nmsg < MaxMsgs /\ ChannelsUpdate(m) /\ UNCHANGED NotSh

SpecCache == InitAll /\ [][NextCache]_vars

\* C18: once the cache holds bytes for a hash, no UserState or ChannelState
\* message changes or deletes them: in every step each key of the cache stays
\* a key, with the same bytes.
C18_BlobImmutable ==
    [][\A h \in DOMAIN blobs : h \in DOMAIN blobs' /\ blobs'[h] = blobs[h]]_vars

----------------------------------------------------------------------------
(* The command envelope and the queue lock, under SpecCmd *)

\* a thread is between the acquire and the release of Commands.lock
InsideCommands ==
    \/ \E h \in Hosts : pc[h] \in {"inc", "setid", "append", "lockcmd", "release"}
    \/ rt_pc \in {"pop", "pop_release"}

\* C19: every command that is constructed has its envelope (cmd_id, lock,
\* response) initialised, so no new_cmd raises; and Commands.lock is held
\* only while a thread is inside new_cmd or pop_cmd: after a new_cmd call has
\* returned or raised the lock is free for the next new_cmd or pop_cmd.
C19_EnvelopeInitialised ==
    /\ \A i \in 1..Len(cmd) : /\ cmd[i].cmd_id # Absent
                              /\ cmd[i].lock # "absent"
                              /\ cmd[i].response # Absent
    /\ \A h \in Hosts : pc[h] # "raised"
    /\ cmds_lock => InsideCommands

----------------------------------------------------------------------------
(* Specification SpecCmdFair: SpecCmd with a runtime loop that keeps       *)
(* popping and answering, and threads that go on once they are inside      *)
(* new_cmd.                                                                *)

RuntimeLoop == PopCmdAcquire \/ PopCmdBody \/ PopCmdRelease \/ Answer

NewCmdSteps(h) ==
    \/ NewCmdAcquire(h) \/ NewCmdInc(h) \/ NewCmdSetId(h)
    \/ NewCmdAppend(h) \/ NewCmdLockCmd(h) \/ NewCmdRelease(h)

SpecCmdFair ==
    /\ InitAll
    /\ [][NextCmd]_vars
    /\ WF_vars(RuntimeLoop /\ UNCHANGED NotCmd)
    /\ \A h \in Hosts : WF_vars(NewCmdSteps(h) /\ UNCHANGED NotCmd)

\* C20: under a fair runtime loop every command enqueued with new_cmd
\* eventually has its completion signal released, however many host threads
\* enqueue.
C20_EveryCommandAnswered ==
    \A i \in 1..MaxCmds : (i \in Range(enq)) ~> (i \in answered)

----------------------------------------------------------------------------
(* Specification SpecThreads: one thread calls add with frames of one      *)
(* size, in and out of order, decodable or not, while another calls        *)
(* get_sound for whole chunks and for slices; every statement is a step.   *)

ThreadSeqs == {1, 2, 3}

NextThreads ==
    \/ \E s \in ThreadSeqs, t \in {PYMUMBLE_AUDIO_TYPE_OPUS, 0},
          ok \in BOOLEAN :
          /\ AddCall(Pcm(Len(arrived) + 1, FrameSamples), ok, s, t, 0)
          /\ UNCHANGED NotSound
    \/ AddAcquire /\ UNCHANGED NotSound
    \/ AddDecode /\ UNCHANGED NotSound
    \/ AddAppend /\ UNCHANGED NotSound
    \/ AddSortTest /\ UNCHANGED NotSound
    \/ AddSwap1 /\ UNCHANGED NotSound
    \/ AddSwap2 /\ UNCHANGED NotSound
    \/ AddSwap3 /\ UNCHANGED NotSound
    \/ AddRelease /\ UNCHANGED NotSound
    \/ AddExcept /\ UNCHANGED NotSound
    \/ \E d \in {None, 3} : GetCall(d) /\ UNCHANGED NotSound
    \/ GetAcquire /\ UNCHANGED NotSound
    \/ GetFirst /\ UNCHANGED NotSound
    \/ GetPop /\ UNCHANGED NotSound
    \/ GetExtractResult /\ UNCHANGED NotSound
    \/ GetExtractAssign /\ UNCHANGED NotSound
    \/ GetRelease /\ UNCHANGED NotSound

SpecThreads == InitAll /\ [][NextThreads]_vars

\* a thread is between the acquire and the release of SoundQueue.lock
AddInside ==
    add_pc \in {"decode", "append", "sorttest", "while", "swap1", "swap2",
                "swap3", "release", "except"}

GetInside ==
    get_pc \in {"first", "pop", "extract", "pcm", "duration", "time", "size",
                "release", "raised"}

\* the bytes of the chunks of a sequence, one after the other
RECURSIVE PcmOf(_)
PcmOf(chunks) ==
    IF chunks = <<>> THEN <<>> ELSE Head(chunks).pcm \o PcmOf(Tail(chunks))

\* the PCM that the get_sound calls returned so far
RECURSIVE ReturnedPcm(_)
ReturnedPcm(calls) ==
    IF calls = <<>> THEN <<>>
    ELSE PcmOf(Head(calls).ret) \o ReturnedPcm(Tail(calls))

\* the PCM of the frames that add queued
AddedPcm ==
    UNION {Range(Pcm(k, FrameSamples)) : k \in 1..Len(arrived)}

\* C21: with one thread in add and one in get_sound, in any interleaving, the
\* two are never inside the lock together, so neither sees the queue or a
\* chunk between two statements of the other; and whenever the lock is free
\* the PCM returned by the get_sound calls and the PCM still queued are,
\* byte for byte and each byte once, the PCM of the frames added, every
\* queued chunk's size being the length of its pcm.
C21_NoPcmLostOrDuplicated ==
    /\ ~(AddInside /\ GetInside)
    /\ ~sq_lock =>
          LET pcm == ReturnedPcm(got) \o PcmOf(queue)
          IN  /\ Range(pcm) = AddedPcm
              /\ Len(pcm) = Cardinality(AddedPcm)
              /\ \A i \in 1..Len(queue) : queue[i].size = Len(queue[i].pcm)

\* get_sound waits for the lock while add is in the middle of a swap, after
\* an earlier get_sound has split a chunk
C21_Witness ==
    /\ get_pc = "acquire"
    /\ add_pc = "swap3"
    /\ \E i \in 1..Len(got) :
          /\ got[i].ret # <<>>
          /\ Len(got[i].ret[1].pcm) < 2 * FrameSamples


\* the frame add is working on has no decoder, or its decoder raises
AddFails ==
    /\ add_pc \in {"decode", "except"}
    /\ (add_arg.type \notin Decoders \/ ~add_arg.decodes)

\* C22: an add whose codec type has no decoder, or whose decode raises,
\* returns None, leaves the queue contents and the burst anchor
\* (start_sequence, start_time) unchanged, and leaves the lock released, so
\* that the next add or get_sound can acquire it.
C22_FailedAddDropsFrame ==
    [][AddFails =>
         /\ queue' = queue
         /\ start_sequence' = start_sequence
         /\ start_time' = start_time
         /\ add_pc' \in {"decode", "except", "idle"}
         /\ add_pc' = "idle" => /\ sq_ret' = <<>>
                                /\ ~sq_lock'
                                /\ SqLockFree']_vars

\* a failed add has returned into a queue that holds a chunk of an active
\* burst, and get_sound is about to take the lock
C22_Witness ==
    /\ add_pc = "idle"
    /\ add_arg # <<>>
    /\ (add_arg.type \notin Decoders \/ ~add_arg.decodes)
    /\ sq_ret = <<>>
    /\ ~sq_lock
    /\ Len(queue) > 0
    /\ start_sequence # None
    /\ get_pc = "acquire"


----------------------------------------------------------------------------
(* Specification SpecGet: a few frames of several sizes are queued in order, *)
(* taken with get_sound() and with get_sound(duration), for durations of   *)
(* whole bytes and of parts of a byte, and looked at with first_sound().   *)

\* how many frames one behaviour of SpecGet queues, and how many it takes
MaxQueued == 2

MaxTaken == 2

\* frames of one and of two samples
FrameSizes == {1, 2}

\* no duration, none at all, less than a byte, one byte, a byte and a part,
\* one sample, two samples
Slices == {None, 0, 1, TicksPerByte, TicksPerByte + 1, 2 * TicksPerByte,
           4 * TicksPerByte}

AddFew ==
    /\ Len(arrived) < MaxQueued
    /\ \E n \in FrameSizes :
          Add(Pcm(Len(arrived), n), TRUE, Len(arrived) + 1,
              PYMUMBLE_AUDIO_TYPE_OPUS, 0)

GetAny ==
    /\ Len(got) < MaxTaken
    /\ \E d \in Slices : GetSound(d)

NextGet ==
    \/ AddFew /\ UNCHANGED NotSq
    \/ GetAny /\ UNCHANGED NotSq
    \/ FirstSoundCall

SpecGet == InitAll /\ [][NextGet]_vars

\* a step in which get_sound returned
GetStep == got' # got

\* a step in which first_sound returned
PeekStep == call' # call

\* C23: get_sound(duration) returns None on an empty queue; with duration
\* omitted, or a tail chunk whose duration is <= duration, it removes the
\* tail chunk and returns it; with a tail chunk longer than duration it
\* returns a new chunk holding the first `duration` of the tail's PCM (the
\* bytes that fit into duration) and keeps the remainder at the tail, the
\* queue length unchanged; first_sound() returns the tail chunk and leaves
\* the queue as it is.
C23_GetSoundCases ==
    [][/\ GetStep =>
            LET d == Last(got').duration
                r == Last(got').ret
            IN  /\ queue = <<>> => r = <<>> /\ queue' = queue
                /\ (queue # <<>> /\ (d = None \/ Last(queue).duration <= d)) =>
                       /\ r = <<Last(queue)>>
                       /\ queue' = Front(queue)
                /\ (queue # <<>> /\ d # None /\ Last(queue).duration > d) =>
                       /\ r # <<>>
                       /\ Len(queue') = Len(queue)
                       /\ Front(queue') = Front(queue)
                       /\ r[1].pcm \o Last(queue').pcm = Last(queue).pcm
                       /\ Len(r[1].pcm) * TicksPerByte <= d
                       /\ d < (Len(r[1].pcm) + 1) * TicksPerByte
       /\ PeekStep =>
            /\ queue' = queue
            /\ call'.ret = IF queue = <<>> THEN <<>> ELSE <<Last(queue)>>]_vars

\* first_sound has returned the remainder of a chunk that get_sound(d) split,
\* with another chunk queued behind it
C23_Witness ==
    /\ call.op = "first_sound"
    /\ Len(queue) > 1
    /\ call.ret = <<Last(queue)>>
    /\ got # <<>>
    /\ Last(got).duration # None
    /\ Last(got).ret # <<>>
    /\ Last(got).ret[1].pcm # <<>>
    /\ Last(got).ret[1].sequence = Last(queue).sequence


----------------------------------------------------------------------------
(* Specification SpecMyself: users of two sessions come, change and go     *)
(* while set_myself names one or the other as the local session.           *)

Sessions == {1, 2}

NextMyself ==
    \/ \E s \in Sessions, n \in FieldValues :
          /\ nmsg < MaxMsgs
          /\ UsersUpdate(("session" :> s) @@ ("name" :> n))
          /\ UNCHANGED NotSh
    \/ \E s \in Sessions :
          /\ nmsg < MaxMsgs
          /\ UsersRemove(s)
          /\ UNCHANGED NotSh
    \/ \E s \in Sessions :
          /\ nmsg < MaxMsgs
          /\ SetMyself(s)
          /\ UNCHANGED NotSh

SpecMyself == InitAll /\ [][NextMyself]_vars

\* C24: after any sequence of set_myself, Users.update and Users.remove, if
\* a user with session myself_session is in the table then myself is that
\* user's record, and myself never refers to a record that is not in the
\* table under myself_session (one removed, or one of an earlier
\* myself_session).
C24_MyselfConsistent ==
    /\ myself_session \in DOMAIN users =>
           myself = users[myself_session]["_obj"]
    /\ myself # None =>
           /\ myself_session \in DOMAIN users
           /\ users[myself_session]["_obj"] = myself


----------------------------------------------------------------------------
(* Specification SpecDiff: UserState and ChannelState messages with and    *)
(* without a name, and with and without the actor who caused the change.   *)

\* how many messages one behaviour of SpecDiff receives
MaxDiffMsgs == 4

Actors == {2}

WithActor(base) ==
    {base} \cup {base @@ ("actor" :> a) : a \in Actors}

DiffMessages(key, id) ==
    UNION {WithActor(m) :
             m \in {key :> id} \cup {(key :> id) @@ ("name" :> n) :
                                        n \in FieldValues}}

NextDiff ==
    \/ \E m \in DiffMessages("session", 1) :
          /\ nmsg < MaxDiffMsgs
          /\ UsersUpdate(m)
          /\ UNCHANGED NotSh
    \/ \E m \in DiffMessages("channel_id", 0) :
          /\ nmsg < MaxDiffMsgs
          /\ ChannelsUpdate(m)
          /\ UNCHANGED NotSh

SpecDiff == InitAll /\ [][NextDiff]_vars

\* the diffs that the update callbacks were given
Diffs(kind) ==
    {cb_log[i].actions : i \in {k \in 1..Len(cb_log) : cb_log[k].kind = kind}}

----------------------------------------------------------------------------
(* Claims about the locks of Users and Channels, under SpecBlob *)

\* C26: Users.update, Users.remove, Channels.update and Channels.remove
\* never leave the lock of their component held when they exit, an exit by
\* an exception raised while the message is applied (such as a hash field that
\* is not 20 bytes long) included: after every call the lock is free for a
\* later update or remove.
C26_LocksReleasedOnExit == ~users_lock /\ ~chan_lock


----------------------------------------------------------------------------
(* Specification SpecDecode: a VarInt that holds a value decodes a byte    *)
(* string of any length that begins, after a negation prefix or without    *)
(* one, with a byte of every class decode distinguishes.                   *)

\* the least and the greatest first byte of each form, and of the prefix
LeadBytes ==
    {\H00, \H7F, \H80, \HBF, \HC0, \HDF, \HE0, \HEF, \HF0, \HF3, \HF4, \HF7,
     \HF8, \HFB, \HFC, \HFF}

\* n bytes that begin with byte b
Filled(b, n) == [i \in 1..n |-> IF i = 1 THEN b ELSE 16 * i + 1]

DecodeInputs ==
    {<<>>}
    \cup {Filled(b, n) : b \in LeadBytes, n \in 1..10}
    \cup {<<\b11111000>> \o Filled(b, n) : b \in LeadBytes, n \in 1..10}

InitDecode ==
    /\ InitSoundQueue /\ InitCommands /\ InitShadows /\ InitCall /\ InitThreads
    /\ vi_value = VarIntNew
    /\ vi_bytes \in DecodeInputs
    /\ vi_self \in {VarIntNew, [neg |-> TRUE, mag |-> Mag(<<5>>)]}
    /\ vi_ret = Decoded("ok", VarIntNew, None)
    /\ vi_pc = "encoded"

NextDecode == VarIntDecode /\ UNCHANGED NotVi

SpecDecode == InitDecode /\ [][NextDecode]_vars

\* C27: for every byte string decode either returns a size between 1 and
\* the length of the input and sets value to the decoded integer, or raises
\* InvalidVarInt and leaves value as it was (the empty input, every
\* truncated form, a negation prefix followed by a byte that starts no
\* form); it never fails with another error.
C27_DecodeTotal ==
    [][(vi_pc = "encoded" /\ vi_pc' = "decoded") =>
          \/ /\ vi_ret'.err = "ok"
             /\ vi_ret'.size \in 1..Len(vi_bytes)
             /\ vi_self' = vi_ret'.value
          \/ /\ vi_ret'.err = "InvalidVarInt"
             /\ vi_self' = vi_self]_vars


----------------------------------------------------------------------------
(* Specification SpecChilds: the server announces channels, each under a   *)
(* parent that is present, and the host asks for the children of any       *)
(* channel of the table.                                                   *)

NextChilds ==
    \/ \E m \in TreeMessages :
          /\ nmsg < MaxMsgs
          /\ KeepsParent(m)
          /\ ChannelsUpdate(m)
          /\ UNCHANGED NotSh
    \/ \E c \in ChanIds : GetChildsCall(c)

SpecChilds == InitAll /\ [][NextChilds]_vars

\* C28: get_childs(c) returns exactly the channels of the table whose parent
\* attribute equals the channel_id of c, for every channel c, the root (id 0)
\* included, and never returns the root or c itself.
C28_ChildsOfEveryChannel ==
    call.op = "get_childs" =>
        /\ call.ret = ChildrenOf(call.table, call.channel)
        /\ 0 \notin call.ret
        /\ call.channel \notin call.ret

=============================================================================
